---- MODULE Spec2Model ----
(***************************************************************************)
(* A model of the CareMate health chatbot (src/main.py): the profile store *)
(* of MedicalChatbot with its write-through persistence, the intent        *)
(* classifier, the sentiment adapter, the prompt composer, the response    *)
(* orchestrator generate_response, and the session handlers of main().     *)
(*                                                                         *)
(* Text is modelled as a sequence of one-character strings, so that        *)
(* lower(), substring tests, concatenation and prefixes are computed and   *)
(* not assumed.  A line feed is the character "LF"; a non-ASCII character  *)
(* is named by its code point ("U2713").                                   *)
(*                                                                         *)
(* Time is a clock `now` counted in half minutes: strftime('%H:%M')        *)
(* truncates it to the minute, isoformat() keeps the seconds.              *)
(***************************************************************************)
EXTENDS Integers, Sequences, FiniteSets, TLC

VARIABLES
    users,                \* self.users: phone -> profile (in memory)
    persisted,            \* the content of kb/users.json
    sentiment_analyzer,   \* TRUE when the pipeline was loaded, FALSE for None
    current_user,         \* st.session_state.current_user
    medical_report_mode,  \* st.session_state.medical_report_mode
    chat_history,         \* st.session_state.chat_history
    now,                  \* the time datetime.now() returned last
    pc,                   \* where the running handler stands
    op,                   \* the store operation whose save is in progress
    turn,                 \* the chat turn being processed, or the last one
    last,                 \* the outcome of the last handler
    pre,                  \* self.users as it was when the handler started
    other,                \* the session state and self.users of a second browser session
    turns                 \* number of chat inputs accepted in this session

vars ==
    <<users, persisted, sentiment_analyzer, current_user, medical_report_mode,
      chat_history, now, pc, op, turn, last, pre, other, turns>>

(***************************************************************************)
(* Bounds of the model.                                                    *)
(***************************************************************************)
\* the latest time the clock is read at, in half minutes
MaxClock == 2

\* chat inputs accepted in one session
MaxTurns == 1

(***************************************************************************)
(* Text helpers.                                                           *)
(***************************************************************************)
UpperLetters ==
    {"A", "B", "C", "D", "E", "F", "G", "H", "I", "J", "K", "L", "M", "N", "O", "P", "Q",
     "R", "S", "T", "U", "V", "W", "X", "Y", "Z"}

UpperToLower ==
    [A |-> "a", B |-> "b", C |-> "c", D |-> "d", E |-> "e", F |-> "f", G |-> "g",
     H |-> "h", I |-> "i", J |-> "j", K |-> "k", L |-> "l", M |-> "m", N |-> "n",
     O |-> "o", P |-> "p", Q |-> "q", R |-> "r", S |-> "s", T |-> "t", U |-> "u",
     V |-> "v", W |-> "w", X |-> "x", Y |-> "y", Z |-> "z"]

\* str.lower()
lower(s) ==
    [i \in 1..Len(s) |-> IF s[i] \in UpperLetters THEN UpperToLower[s[i]] ELSE s[i]]

\* Python's `w in s` for strings: w occurs as a substring of s
In(w, s) ==
    \/ Len(w) = 0
    \/ \E i \in 0..(Len(s) - Len(w)) :
           /\ s[i + 1] = w[1]
           /\ \A j \in 2..Len(w) : s[i + j] = w[j]

\* s[:n]
Take(s, n) ==
    SubSeq(s, 1, IF Len(s) < n THEN Len(s) ELSE n)

Digits ==
    <<"0", "1", "2", "3", "4", "5", "6", "7", "8", "9">>

RECURSIVE IntToStr(_)
\* str(n) for an int n >= 0
IntToStr(n) ==
    IF n < 10 THEN <<Digits[n + 1]>> ELSE IntToStr(n \div 10) \o <<Digits[(n % 10) + 1]>>

\* a two-digit field of a formatted time
Pad2(n) ==
    <<Digits[(n \div 10) + 1], Digits[(n % 10) + 1]>>

\* datetime.now().strftime('%Y-%m-%d %H:%M'): the date and hour are fixed in the
\* model and left out, the minute is kept, the seconds are dropped
StrfTime(t) ==
    Pad2(t \div 2)

\* datetime.now().isoformat(): keeps the seconds
IsoFormat(t) ==
    Pad2(t \div 2) \o <<":">> \o Pad2(30 * (t % 2))

\* whether float(s) succeeds, for the texts the model stores in Height and
\* Weight (digit strings and words)
IsFloat(s) ==
    /\ Len(s) > 0
    /\ \A i \in 1..Len(s) : \E d \in 1..10 : s[i] = Digits[d]

DigitValue(c) ==
    (CHOOSE d \in 1..10 : Digits[d] = c) - 1

RECURSIVE StrToInt(_)
\* the value of float(s) for a digit string s
StrToInt(s) ==
    IF Len(s) = 0 THEN 0
    ELSE 10 * StrToInt(SubSeq(s, 1, Len(s) - 1)) + DigitValue(s[Len(s)])

\* self.system_prompt (src/main.py:27-42)
system_prompt ==
    <<"LF"," "," "," "," "," "," "," "," ","Y","o","u"," ","a","r","e"," ","a"," ","m","e","d",
      "i","c","a","l"," ","h","e","a","l","t","h"," ","i","n","f","o","r","m","a","t","i","o",
      "n"," ","a","s","s","i","s","t","a","n","t",".","LF"," "," "," "," "," "," "," "," ","Y",
      "o","u"," ","a","r","e"," ","N","O","T"," ","a"," ","d","o","c","t","o","r",".","LF"," ",
      " "," "," "," "," "," "," ","Y","o","u"," ","m","u","s","t"," ","N","O","T"," ","d","i",
      "a","g","n","o","s","e"," ","d","i","s","e","a","s","e","s"," ","o","r"," ","p","r","e",
      "s","c","r","i","b","e"," ","m","e","d","i","c","a","t","i","o","n",".","LF"," "," "," ",
      " "," "," "," "," ","Y","o","u"," ","p","r","o","v","i","d","e"," ","g","e","n","e","r",
      "a","l",","," ","e","d","u","c","a","t","i","o","n","a","l"," ","h","e","a","l","t","h",
      " ","i","n","f","o","r","m","a","t","i","o","n"," ","o","n","l","y",".","LF","LF"," "," ",
      " "," "," "," "," "," ","R","u","l","e","s",":","LF"," "," "," "," "," "," "," "," ","-",
      " ","A","l","w","a","y","s"," ","i","n","c","l","u","d","e"," ","a"," ","m","e","d","i",
      "c","a","l"," ","d","i","s","c","l","a","i","m","e","r","LF"," "," "," "," "," "," "," ",
      " ","-"," ","E","n","c","o","u","r","a","g","e"," ","c","o","n","s","u","l","t","i","n",
      "g"," ","l","i","c","e","n","s","e","d"," ","h","e","a","l","t","h","c","a","r","e"," ",
      "p","r","o","f","e","s","s","i","o","n","a","l","s","LF"," "," "," "," "," "," "," "," ",
      "-"," ","U","s","e"," ","c","a","u","t","i","o","u","s",","," ","n","o","n","-","d","e",
      "f","i","n","i","t","i","v","e"," ","l","a","n","g","u","a","g","e","LF"," "," "," "," ",
      " "," "," "," ","-"," ","T","r","e","a","t"," ","m","e","n","t","a","l"," ","h","e","a",
      "l","t","h"," ","a","n","d"," ","e","m","e","r","g","e","n","c","y"," ","s","y","m","p",
      "t","o","m","s"," ","w","i","t","h"," ","e","x","t","r","a"," ","c","a","r","e","LF"," ",
      " "," "," "," "," "," "," ","-"," ","A","d","v","i","s","e"," ","i","m","m","e","d","i",
      "a","t","e"," ","m","e","d","i","c","a","l"," ","a","t","t","e","n","t","i","o","n"," ",
      "f","o","r"," ","s","e","v","e","r","e"," ","o","r"," ","a","l","a","r","m","i","n","g",
      " ","s","y","m","p","t","o","m","s","LF","LF"," "," "," "," "," "," "," "," ","T","o","n",
      "e",":","LF"," "," "," "," "," "," "," "," ","C","a","l","m",","," ","p","r","o","f","e",
      "s","s","i","o","n","a","l",","," ","e","m","p","a","t","h","e","t","i","c",".","LF"," ",
      " "," "," "," "," "," "," ">>

\* get_nutrition_advice task_prompt, literal part 1 (src/main.py:196-216)
NutritionTpl1 ==
    <<"LF"," "," "," "," "," "," "," "," ","U","s","i","n","g"," ","t","h","e"," ","u","s","e",
      "r"," ","p","r","o","f","i","l","e"," ","a","n","d"," ","d","i","e","t"," ","d","e","t",
      "a","i","l","s"," ","p","r","o","v","i","d","e","d",":","LF"," "," "," "," "," "," "," ",
      " ","-"," ","I","d","e","n","t","i","f","y"," ","u","n","h","e","a","l","t","h","y"," ",
      "d","i","e","t","a","r","y"," ","p","a","t","t","e","r","n","s","LF"," "," "," "," "," ",
      " "," "," ","-"," ","S","u","g","g","e","s","t"," ","h","e","a","l","t","h","i","e","r",
      " ","a","l","t","e","r","n","a","t","i","v","e","s","LF"," "," "," "," "," "," "," "," ",
      "-"," ","R","e","c","o","m","m","e","n","d"," ","b","a","l","a","n","c","e","d"," ","m",
      "e","a","l","s","LF"," "," "," "," "," "," "," "," ","-"," ","P","e","r","s","o","n","a",
      "l","i","z","e"," ","a","d","v","i","c","e"," ","b","a","s","e","d"," ","o","n"," ","a",
      "g","e",","," ","w","e","i","g","h","t",","," ","h","e","i","g","h","t",","," ","g","e",
      "n","d","e","r",","," ","a","n","d"," ","c","o","u","n","t","r","y","LF","LF"," "," "," ",
      " "," "," "," "," ","U","s","e","r"," ","P","r","o","f","i","l","e",":","LF"," "," "," ",
      " "," "," "," "," ","-"," ","N","a","m","e",":"," ">>

\* get_nutrition_advice task_prompt, literal part 2 (src/main.py:196-216)
NutritionTpl2 ==
    <<"LF"," "," "," "," "," "," "," "," ","-"," ","A","g","e",":"," ">>

\* get_nutrition_advice task_prompt, literal part 3 (src/main.py:196-216)
NutritionTpl3 ==
    <<"LF"," "," "," "," "," "," "," "," ","-"," ","H","e","i","g","h","t",":"," ">>

\* get_nutrition_advice task_prompt, literal part 4 (src/main.py:196-216)
NutritionTpl4 ==
    <<" ","c","m","LF"," "," "," "," "," "," "," "," ","-"," ","W","e","i","g","h","t",":"," ">>

\* get_nutrition_advice task_prompt, literal part 5 (src/main.py:196-216)
NutritionTpl5 ==
    <<" ","k","g","LF"," "," "," "," "," "," "," "," ","-"," ","G","e","n","d","e","r",":"," ">>

\* get_nutrition_advice task_prompt, literal part 6 (src/main.py:196-216)
NutritionTpl6 ==
    <<"LF"," "," "," "," "," "," "," "," ","-"," ","C","o","u","n","t","r","y",":"," ">>

\* get_nutrition_advice task_prompt, literal part 7 (src/main.py:196-216)
NutritionTpl7 ==
    <<"LF"," "," "," "," "," "," "," "," ","LF"," "," "," "," "," "," "," "," ","C","u","r","r",
      "e","n","t"," ","D","i","e","t",":"," ">>

\* get_nutrition_advice task_prompt, literal part 8 (src/main.py:196-216)
NutritionTpl8 ==
    <<"LF"," "," "," "," "," "," "," "," ","U","s","e","r"," ","Q","u","e","r","y",":"," ">>

\* get_nutrition_advice task_prompt, literal part 9 (src/main.py:196-216)
NutritionTpl9 ==
    <<"LF","LF"," "," "," "," "," "," "," "," ","D","o"," ","n","o","t"," ","d","i","a","g","n",
      "o","s","e"," ","o","r"," ","p","r","e","s","c","r","i","b","e",".","LF"," "," "," "," ",
      " "," "," "," ","I","n","c","l","u","d","e"," ","a"," ","m","e","d","i","c","a","l"," ",
      "d","i","s","c","l","a","i","m","e","r",".","LF"," "," "," "," "," "," "," "," ">>

\* get_symptom_analysis user_context, literal part 1 (src/main.py:225-231)
SymptomCtx1 ==
    <<"LF"," "," "," "," "," "," "," "," "," "," "," "," ","U","s","e","r"," ","P","r","o","f",
      "i","l","e",":","LF"," "," "," "," "," "," "," "," "," "," "," "," ","-"," ","A","g","e",
      ":"," ">>

\* get_symptom_analysis user_context, literal part 2 (src/main.py:225-231)
SymptomCtx2 ==
    <<"LF"," "," "," "," "," "," "," "," "," "," "," "," ","-"," ","G","e","n","d","e","r",":",
      " ">>

\* get_symptom_analysis user_context, literal part 3 (src/main.py:225-231)
SymptomCtx3 ==
    <<"LF"," "," "," "," "," "," "," "," "," "," "," "," ","-"," ","H","e","i","g","h","t",":",
      " ">>

\* get_symptom_analysis user_context, literal part 4 (src/main.py:225-231)
SymptomCtx4 ==
    <<" ","c","m","LF"," "," "," "," "," "," "," "," "," "," "," "," ","-"," ","W","e","i","g",
      "h","t",":"," ">>

\* get_symptom_analysis user_context, literal part 5 (src/main.py:225-231)
SymptomCtx5 ==
    <<" ","k","g","LF"," "," "," "," "," "," "," "," "," "," "," "," ">>

\* get_symptom_analysis task_prompt, literal part 1 (src/main.py:233-247)
SymptomTpl1 ==
    <<"LF"," "," "," "," "," "," "," "," ","T","h","e"," ","u","s","e","r"," ","i","s"," ","d",
      "e","s","c","r","i","b","i","n","g"," ","h","e","a","l","t","h"," ","s","y","m","p","t",
      "o","m","s",".","LF"," "," "," "," "," "," "," "," ","LF"," "," "," "," "," "," "," "," ">>

\* get_symptom_analysis task_prompt, literal part 2 (src/main.py:233-247)
SymptomTpl2 ==
    <<"LF"," "," "," "," "," "," "," "," ","S","y","m","p","t","o","m","s"," ","d","e","s","c",
      "r","i","b","e","d",":"," ">>

\* get_symptom_analysis task_prompt, literal part 3 (src/main.py:233-247)
SymptomTpl3 ==
    <<"LF","LF"," "," "," "," "," "," "," "," ","P","r","o","v","i","d","e",":","LF"," "," ",
      " "," "," "," "," "," ","1","."," ","P","o","s","s","i","b","l","e"," ","c","o","m","m",
      "o","n"," ","c","a","u","s","e","s"," ","(","n","o","t"," ","a"," ","d","i","a","g","n",
      "o","s","i","s",")","LF"," "," "," "," "," "," "," "," ","2","."," ","G","e","n","e","r",
      "a","l"," ","s","e","l","f","-","c","a","r","e"," ","g","u","i","d","a","n","c","e","LF",
      " "," "," "," "," "," "," "," ","3","."," ","W","a","r","n","i","n","g"," ","s","i","g",
      "n","s"," ","t","h","a","t"," ","r","e","q","u","i","r","e"," ","m","e","d","i","c","a",
      "l"," ","a","t","t","e","n","t","i","o","n","LF"," "," "," "," "," "," "," "," ","4",".",
      " ","I","m","p","o","r","t","a","n","t"," ","p","r","e","c","a","u","t","i","o","n","s",
      "LF","LF"," "," "," "," "," "," "," "," ","A","l","w","a","y","s"," ","i","n","c","l","u",
      "d","e"," ","a"," ","d","i","s","c","l","a","i","m","e","r"," ","s","t","a","t","i","n",
      "g"," ","t","h","i","s"," ","i","s"," ","n","o","t"," ","m","e","d","i","c","a","l"," ",
      "a","d","v","i","c","e",".","LF"," "," "," "," "," "," "," "," ","U","s","e"," ","e","m",
      "p","a","t","h","e","t","i","c"," ","a","n","d"," ","c","a","u","t","i","o","u","s"," ",
      "l","a","n","g","u","a","g","e",".","LF"," "," "," "," "," "," "," "," ">>

\* get_mental_health_support user_context, literal part 1 (src/main.py:256-260)
MentalCtx1 ==
    <<"LF"," "," "," "," "," "," "," "," "," "," "," "," ","U","s","e","r"," ","P","r","o","f",
      "i","l","e",":","LF"," "," "," "," "," "," "," "," "," "," "," "," ","-"," ","A","g","e",
      ":"," ">>

\* get_mental_health_support user_context, literal part 2 (src/main.py:256-260)
MentalCtx2 ==
    <<"LF"," "," "," "," "," "," "," "," "," "," "," "," ","-"," ","G","e","n","d","e","r",":",
      " ">>

\* get_mental_health_support user_context, literal part 3 (src/main.py:256-260)
MentalCtx3 ==
    <<"LF"," "," "," "," "," "," "," "," "," "," "," "," ">>

\* get_mental_health_support task_prompt, literal part 1 (src/main.py:262-276)
MentalTpl1 ==
    <<"LF"," "," "," "," "," "," "," "," ","P","r","o","v","i","d","e"," ","s","u","p","p","o",
      "r","t","i","v","e",","," ","n","o","n","-","j","u","d","g","m","e","n","t","a","l"," ",
      "g","u","i","d","a","n","c","e"," ","f","o","r"," ","m","e","n","t","a","l"," ","h","e",
      "a","l","t","h"," ","c","o","n","c","e","r","n","s",".","LF"," "," "," "," "," "," "," ",
      " ","LF"," "," "," "," "," "," "," "," ">>

\* get_mental_health_support task_prompt, literal part 2 (src/main.py:262-276)
MentalTpl2 ==
    <<"LF"," "," "," "," "," "," "," "," ","U","s","e","r","'","s"," ","c","o","n","c","e","r",
      "n",":"," ">>

\* get_mental_health_support task_prompt, literal part 3 (src/main.py:262-276)
MentalTpl3 ==
    <<"LF","LF"," "," "," "," "," "," "," "," ","F","o","c","u","s"," ","o","n",":","LF"," ",
      " "," "," "," "," "," "," ","-"," ","C","o","p","i","n","g"," ","s","t","r","a","t","e",
      "g","i","e","s","LF"," "," "," "," "," "," "," "," ","-"," ","B","r","e","a","t","h","i",
      "n","g"," ","o","r"," ","g","r","o","u","n","d","i","n","g"," ","t","e","c","h","n","i",
      "q","u","e","s","LF"," "," "," "," "," "," "," "," ","-"," ","S","l","e","e","p"," ","a",
      "n","d"," ","r","o","u","t","i","n","e","LF"," "," "," "," "," "," "," "," ","-"," ","W",
      "h","e","n"," ","t","o"," ","s","e","e","k"," ","p","r","o","f","e","s","s","i","o","n",
      "a","l"," ","h","e","l","p","LF","LF"," "," "," "," "," "," "," "," ","D","o"," ","n","o",
      "t"," ","p","r","o","v","i","d","e"," ","t","h","e","r","a","p","y"," ","o","r"," ","d",
      "i","a","g","n","o","s","i","s",".","LF"," "," "," "," "," "," "," "," ","I","n","c","l",
      "u","d","e"," ","a"," ","m","e","n","t","a","l"," ","h","e","a","l","t","h"," ","s","a",
      "f","e","t","y"," ","d","i","s","c","l","a","i","m","e","r",".","LF"," "," "," "," "," ",
      " "," "," ">>

\* get_fitness_guidance task_prompt, literal part 1 (src/main.py:283-301)
FitnessTpl1 ==
    <<"LF"," "," "," "," "," "," "," "," ","P","r","o","v","i","d","e"," ","g","e","n","e","r",
      "a","l"," ","f","i","t","n","e","s","s"," ","g","u","i","d","a","n","c","e"," ","b","a",
      "s","e","d"," ","o","n"," ","t","h","e"," ","u","s","e","r"," ","p","r","o","f","i","l",
      "e",".","LF"," "," "," "," "," "," "," "," ","LF"," "," "," "," "," "," "," "," ","U","s",
      "e","r"," ","P","r","o","f","i","l","e",":","LF"," "," "," "," "," "," "," "," ","-"," ",
      "A","g","e",":"," ">>

\* get_fitness_guidance task_prompt, literal part 2 (src/main.py:283-301)
FitnessTpl2 ==
    <<"LF"," "," "," "," "," "," "," "," ","-"," ","G","e","n","d","e","r",":"," ">>

\* get_fitness_guidance task_prompt, literal part 3 (src/main.py:283-301)
FitnessTpl3 ==
    <<"LF"," "," "," "," "," "," "," "," ","-"," ","H","e","i","g","h","t",":"," ">>

\* get_fitness_guidance task_prompt, literal part 4 (src/main.py:283-301)
FitnessTpl4 ==
    <<" ","c","m","LF"," "," "," "," "," "," "," "," ","-"," ","W","e","i","g","h","t",":"," ">>

\* get_fitness_guidance task_prompt, literal part 5 (src/main.py:283-301)
FitnessTpl5 ==
    <<" ","k","g","LF"," "," "," "," "," "," "," "," ","LF"," "," "," "," "," "," "," "," ","Q",
      "u","e","r","y",":"," ">>

\* get_fitness_guidance task_prompt, literal part 6 (src/main.py:283-301)
FitnessTpl6 ==
    <<"LF","LF"," "," "," "," "," "," "," "," ","I","n","c","l","u","d","e",":","LF"," "," ",
      " "," "," "," "," "," ","-"," ","S","a","f","e"," ","e","x","e","r","c","i","s","e"," ",
      "s","u","g","g","e","s","t","i","o","n","s","LF"," "," "," "," "," "," "," "," ","-"," ",
      "A","c","t","i","v","i","t","y"," ","f","r","e","q","u","e","n","c","y","LF"," "," "," ",
      " "," "," "," "," ","-"," ","P","r","e","c","a","u","t","i","o","n","s"," ","b","a","s",
      "e","d"," ","o","n"," ","a","g","e"," ","a","n","d"," ","w","e","i","g","h","t","LF","LF",
      " "," "," "," "," "," "," "," ","D","o"," ","n","o","t"," ","c","r","e","a","t","e"," ",
      "m","e","d","i","c","a","l"," ","o","r"," ","r","e","h","a","b","i","l","i","t","a","t",
      "i","o","n"," ","p","l","a","n","s",".","LF"," "," "," "," "," "," "," "," ","I","n","c",
      "l","u","d","e"," ","a"," ","d","i","s","c","l","a","i","m","e","r",".","LF"," "," "," ",
      " "," "," "," "," ">>

\* get_general_health_info user_context, literal part 1 (src/main.py:310-314)
GeneralCtx1 ==
    <<"LF"," "," "," "," "," "," "," "," "," "," "," "," ","U","s","e","r"," ","P","r","o","f",
      "i","l","e"," ","(","i","f"," ","r","e","l","e","v","a","n","t",")",":","LF"," "," "," ",
      " "," "," "," "," "," "," "," "," ","-"," ","A","g","e",":"," ">>

\* get_general_health_info user_context, literal part 2 (src/main.py:310-314)
GeneralCtx2 ==
    <<"LF"," "," "," "," "," "," "," "," "," "," "," "," ","-"," ","G","e","n","d","e","r",":",
      " ">>

\* get_general_health_info user_context, literal part 3 (src/main.py:310-314)
GeneralCtx3 ==
    <<"LF"," "," "," "," "," "," "," "," "," "," "," "," ">>

\* get_general_health_info task_prompt, literal part 1 (src/main.py:316-325)
GeneralTpl1 ==
    <<"LF"," "," "," "," "," "," "," "," ","P","r","o","v","i","d","e"," ","g","e","n","e","r",
      "a","l",","," ","p","r","a","c","t","i","c","a","l"," ","h","e","a","l","t","h"," ","i",
      "n","f","o","r","m","a","t","i","o","n"," ","r","e","l","a","t","e","d"," ","t","o"," ",
      "t","h","e"," ","u","s","e","r","'","s"," ","q","u","e","s","t","i","o","n",".","LF"," ",
      " "," "," "," "," "," "," ","LF"," "," "," "," "," "," "," "," ">>

\* get_general_health_info task_prompt, literal part 2 (src/main.py:316-325)
GeneralTpl2 ==
    <<"LF"," "," "," "," "," "," "," "," ","U","s","e","r","'","s"," ","q","u","e","s","t","i",
      "o","n",":"," ">>

\* get_general_health_info task_prompt, literal part 3 (src/main.py:316-325)
GeneralTpl3 ==
    <<"LF","LF"," "," "," "," "," "," "," "," ","I","f"," ","t","h","e"," ","i","n","p","u","t",
      " ","i","s"," ","a"," ","g","r","e","e","t","i","n","g",","," ","r","e","s","p","o","n",
      "d"," ","p","o","l","i","t","e","l","y",".","LF"," "," "," "," "," "," "," "," ","A","v",
      "o","i","d"," ","d","i","a","g","n","o","s","i","s",","," ","c","e","r","t","a","i","n",
      "t","y",","," ","o","r"," ","m","e","d","i","c","a","l"," ","p","r","e","s","c","r","i",
      "p","t","i","o","n","s",".","LF"," "," "," "," "," "," "," "," ","I","n","c","l","u","d",
      "e"," ","a"," ","d","i","s","c","l","a","i","m","e","r"," ","w","h","e","n"," ","h","e",
      "a","l","t","h"," ","a","d","v","i","c","e"," ","i","s"," ","g","i","v","e","n",".","LF",
      " "," "," "," "," "," "," "," ">>

\* fallback text (src/main.py:187)
FallbackNutrition ==
    <<"I"," ","a","p","o","l","o","g","i","z","e",","," ","b","u","t"," ","I","'","m"," ","h",
      "a","v","i","n","g"," ","t","r","o","u","b","l","e"," ","a","c","c","e","s","s","i","n",
      "g"," ","n","u","t","r","i","t","i","o","n"," ","a","d","v","i","c","e"," ","r","i","g",
      "h","t"," ","n","o","w","."," ","P","l","e","a","s","e"," ","t","r","y"," ","a","g","a",
      "i","n"," ","l","a","t","e","r"," ","o","r"," ","c","o","n","s","u","l","t"," ","a"," ",
      "n","u","t","r","i","t","i","o","n","i","s","t",".">>

\* fallback text (src/main.py:189)
FallbackSymptom ==
    <<"I","'","m"," ","c","u","r","r","e","n","t","l","y"," ","u","n","a","b","l","e"," ","t",
      "o"," ","a","n","a","l","y","z","e"," ","s","y","m","p","t","o","m","s","."," ","P","l",
      "e","a","s","e"," ","c","o","n","s","u","l","t"," ","a"," ","h","e","a","l","t","h","c",
      "a","r","e"," ","p","r","o","f","e","s","s","i","o","n","a","l"," ","f","o","r"," ","a",
      "n","y"," ","m","e","d","i","c","a","l"," ","c","o","n","c","e","r","n","s",".">>

\* fallback text (src/main.py:191)
FallbackOther ==
    <<"I","'","m"," ","h","a","v","i","n","g"," ","t","r","o","u","b","l","e"," ","p","r","o",
      "c","e","s","s","i","n","g"," ","y","o","u","r"," ","r","e","q","u","e","s","t","."," ",
      "P","l","e","a","s","e"," ","t","r","y"," ","a","g","a","i","n"," ","o","r"," ","c","o",
      "n","s","u","l","t"," ","a"," ","h","e","a","l","t","h","c","a","r","e"," ","p","r","o",
      "f","e","s","s","i","o","n","a","l"," ","f","o","r"," ","m","e","d","i","c","a","l"," ",
      "a","d","v","i","c","e",".">>

\* empathetic opening (src/main.py:338)
OpeningConcerning ==
    <<"I"," ","u","n","d","e","r","s","t","a","n","d"," ","t","h","i","s"," ","m","i","g","h",
      "t"," ","b","e"," ","c","o","n","c","e","r","n","i","n","g","."," ">>

\* empathetic opening (src/main.py:340)
OpeningSorry ==
    <<"I","'","m"," ","s","o","r","r","y"," ","t","o"," ","h","e","a","r"," ","y","o","u","'",
      "r","e"," ","f","e","e","l","i","n","g"," ","t","h","i","s"," ","w","a","y","."," ">>

\* empathetic opening (src/main.py:342)
OpeningThanks ==
    <<"T","h","a","n","k"," ","y","o","u"," ","f","o","r"," ","s","h","a","r","i","n","g",".",
      " ">>

\* BMI guidance (src/main.py:359)
BmiUnder ==
    <<"C","o","n","s","i","d","e","r"," ","i","n","c","r","e","a","s","i","n","g"," ","n","u",
      "t","r","i","e","n","t","-","d","e","n","s","e"," ","f","o","o","d","s",".">>

\* BMI guidance (src/main.py:361)
BmiHealthy ==
    <<"G","r","e","a","t","!"," ","M","a","i","n","t","a","i","n"," ","y","o","u","r"," ","h",
      "e","a","l","t","h","y"," ","w","e","i","g","h","t",".">>

\* BMI guidance (src/main.py:363)
BmiOver ==
    <<"C","o","n","s","i","d","e","r"," ","p","o","r","t","i","o","n"," ","c","o","n","t","r",
      "o","l"," ","a","n","d"," ","i","n","c","r","e","a","s","e","d"," ","a","c","t","i","v",
      "i","t","y",".">>

\* record-only acknowledgment (src/main.py:534)
RecordAck ==
    <<"U2713"," ","A","d","d","e","d"," ","t","o"," ","y","o","u","r"," ","m","e","d","i","c",
      "a","l"," ","r","e","c","o","r","d","."," ","C","o","n","t","i","n","u","e"," ","p","r",
      "o","v","i","d","i","n","g"," ","i","n","f","o","r","m","a","t","i","o","n"," ","o","r",
      " ","c","l","i","c","k"," ","'","S","t","o","p"," ","M","e","d","i","c","a","l"," ","R",
      "e","p","o","r","t","'"," ","t","o"," ","e","x","i","t",".">>

\* command acknowledgment (src/main.py:539)
CommandAck ==
    <<"M","e","d","i","c","a","l"," ","r","e","p","o","r","t"," ","m","o","d","e"," ","s","t",
      "a","r","t","e","d","."," ","A","l","l"," ","y","o","u","r"," ","m","e","s","s","a","g",
      "e","s"," ","w","i","l","l"," ","b","e"," ","s","a","v","e","d"," ","t","o"," ","y","o",
      "u","r"," ","m","e","d","i","c","a","l"," ","f","i","l","e",".">>

\* nutrition keyword list, in source order (src/main.py:164)
NutritionWords ==
    <<
       <<"d","i","e","t">>,
       <<"n","u","t","r","i","t","i","o","n">>,
       <<"f","o","o","d">>,
       <<"e","a","t">>,
       <<"m","e","a","l">>,
       <<"c","a","l","o","r","i","e">>,
       <<"s","w","e","e","t">>,
       <<"f","r","i","e","s">>
    >>

\* symptom keyword list, in source order (src/main.py:166)
SymptomWords ==
    <<
       <<"s","y","m","p","t","o","m">>,
       <<"p","a","i","n">>,
       <<"h","u","r","t">>,
       <<"f","e","v","e","r">>,
       <<"h","e","a","d","a","c","h","e">>,
       <<"s","i","c","k">>,
       <<"a","c","h","e">>,
       <<"n","a","u","s","e","a">>,
       <<"v","o","m","i","t">>,
       <<"d","i","z","z","i","n","e","s","s">>
    >>

\* mental-health keyword list, in source order (src/main.py:168)
MentalHealthWords ==
    <<
       <<"s","t","r","e","s","s">>,
       <<"a","n","x","i","e","t","y">>,
       <<"m","o","o","d">>,
       <<"f","e","e","l">>,
       <<"e","m","o","t","i","o","n","a","l">>,
       <<"d","e","p","r","e","s","s">>
    >>

\* fitness keyword list, in source order (src/main.py:170)
FitnessWords ==
    <<
       <<"w","e","i","g","h","t">>,
       <<"b","m","i">>,
       <<"e","x","e","r","c","i","s","e">>,
       <<"f","i","t","n","e","s","s">>,
       <<"w","o","r","k","o","u","t">>
    >>

\* substring looked for in the lower-cased task prompt (src/main.py:186)
FallbackKeyNutrition ==
    <<"n","u","t","r","i","t","i","o","n">>

\* substring looked for in the lower-cased task prompt (src/main.py:188)
FallbackKeySymptom ==
    <<"s","y","m","p","t","o","m">>

\* the command token (src/main.py:537)
MedicalReportCommand ==
    <<"/","m","e","d","i","c","a","l","r","e","p","o","r","t">>

\* f-string prefix of bmi_info (src/main.py:357)
BmiPrefix ==
    <<"LF","LF","Y","o","u","r"," ","B","M","I",":"," ">>

\* f-string suffix of bmi_info (src/main.py:357)
BmiSep ==
    <<" ","-"," ">>

\* separator between timestamp and note text (src/main.py:124-126)
NoteSep ==
    <<":"," ">>

\* sample chat input "fries pain"
MsgFriesPain ==
    <<"f","r","i","e","s"," ","p","a","i","n">>

\* sample chat input "pain mood"
MsgPainMood ==
    <<"p","a","i","n"," ","m","o","o","d">>

\* sample chat input "mood bmi"
MsgMoodBmi ==
    <<"m","o","o","d"," ","b","m","i">>

\* sample chat input "BMI"
MsgBmi ==
    <<"B","M","I">>

\* sample chat input "hi"
MsgHi ==
    <<"h","i">>

\* sample chat input "/MedicalReport"
MsgCommand ==
    <<"/","M","e","d","i","c","a","l","R","e","p","o","r","t">>

\* sample chat input "I had fries and soda for lunch"
MsgLunch ==
    <<"I"," ","h","a","d"," ","f","r","i","e","s"," ","a","n","d"," ","s","o","d","a"," ","f",
      "o","r"," ","l","u","n","c","h">>

\* sample text "Al"
NameAl ==
    <<"A","l">>

\* sample text "Bo"
NameBo ==
    <<"B","o">>

\* sample text "Male"
GenderMale ==
    <<"M","a","l","e">>

\* sample text "Female"
GenderFemale ==
    <<"F","e","m","a","l","e">>

\* sample text "India"
CountryIN ==
    <<"I","n","d","i","a">>

\* sample text "USA"
CountryUS ==
    <<"U","S","A">>

\* sample text "ok"
GeminiText ==
    <<"o","k">>

\* sample text "fries"
FoodFries ==
    <<"f","r","i","e","s">>

\* sample text "soda"
FoodSoda ==
    <<"s","o","d","a">>

\* sample text "baked potato"
AltBakedPotato ==
    <<"b","a","k","e","d"," ","p","o","t","a","t","o">>

\* sample text "water"
AltWater ==
    <<"w","a","t","e","r">>

\* sample text "tea"
AltTea ==
    <<"t","e","a">>

\* sample text "seltzer"
AltSeltzer ==
    <<"s","e","l","t","z","e","r">>

\* sample text "abc"
WordAbc ==
    <<"a","b","c">>

(***************************************************************************)
(* Floating-point arithmetic.  Python's float is the IEEE 754 binary64     *)
(* format: every operation returns the exact result rounded to 53          *)
(* significant bits, ties to even.  Significands do not fit the integers   *)
(* of the model checker, so a natural number of any size is a sequence of  *)
(* digits in base 2^13, lowest digit first and highest digit not zero, and *)
(* a float is a pair m, s that stands for m / 2^s.                         *)
(***************************************************************************)
RECURSIVE BigOf(_)
\* the digits of the integer n >= 0
BigOf(n) ==
    IF n = 0 THEN << >> ELSE <<n % 2^13>> \o BigOf(n \div 2^13)

RECURSIVE BigVal(_)
\* the integer of a short sequence of digits
BigVal(a) ==
    IF Len(a) = 0 THEN 0 ELSE a[1] + 2^13 * BigVal(Tail(a))

RECURSIVE Trim(_)
\* a without its leading zero digits
Trim(a) ==
    IF Len(a) = 0 THEN a
    ELSE IF a[Len(a)] = 0 THEN Trim(SubSeq(a, 1, Len(a) - 1))
    ELSE a

\* digit i of a
Digit(a, i) ==
    IF i <= Len(a) THEN a[i] ELSE 0

RECURSIVE AddFrom(_, _, _, _)
\* the digits of a + b from digit i on, with carry c coming in
AddFrom(a, b, i, c) ==
    IF i > Len(a) /\ i > Len(b) THEN (IF c = 0 THEN << >> ELSE <<c>>)
    ELSE LET sum == Digit(a, i) + Digit(b, i) + c
         IN  <<sum % 2^13>> \o AddFrom(a, b, i + 1, sum \div 2^13)

RECURSIVE SubFrom(_, _, _, _)
\* the digits of a - b from digit i on, with borrow c coming in (a >= b)
SubFrom(a, b, i, c) ==
    IF i > Len(a) THEN << >>
    ELSE LET diff == Digit(a, i) - Digit(b, i) - c
         IN  <<(diff + 2^13) % 2^13>> \o SubFrom(a, b, i + 1, IF diff < 0 THEN 1 ELSE 0)

BigSub(a, b) ==
    Trim(SubFrom(a, b, 1, 0))

\* a < b
BigLess(a, b) ==
    IF Len(a) # Len(b) THEN Len(a) < Len(b)
    ELSE \E i \in 1..Len(a) :
             /\ a[i] < b[i]
             /\ \A j \in (i + 1)..Len(a) : a[j] = b[j]

RECURSIVE MulSmallFrom(_, _, _, _)
\* the digits of a * k from digit i on, with carry c coming in (0 <= k <= 2^13)
MulSmallFrom(a, k, i, c) ==
    IF i > Len(a) THEN (IF c = 0 THEN << >> ELSE <<c>>)
    ELSE LET prod == a[i] * k + c
         IN  <<prod % 2^13>> \o MulSmallFrom(a, k, i + 1, prod \div 2^13)

MulSmall(a, k) ==
    IF k = 0 THEN << >> ELSE MulSmallFrom(a, k, 1, 0)

\* a * 2^k
Shl(a, k) ==
    IF Len(a) = 0 THEN a
    ELSE [i \in 1..(k \div 13) |-> 0] \o MulSmall(a, 2^(k % 13))

RECURSIVE DivSmallFrom(_, _, _, _)
\* the digits i down to 1 of the quotient of a by k, with remainder r coming in
\* from above (0 < k <= 2^13)
DivSmallFrom(a, k, i, r) ==
    IF i = 0 THEN << >>
    ELSE LET cur == r * 2^13 + a[i]
         IN  DivSmallFrom(a, k, i - 1, cur % k) \o <<cur \div k>>

\* a \div 2^k
Shr(a, k) ==
    LET high == SubSeq(a, (k \div 13) + 1, Len(a))
    IN  Trim(DivSmallFrom(high, 2^(k % 13), Len(high), 0))

RECURSIVE SmallBitLen(_)
\* the number of bits of the integer n >= 0
SmallBitLen(n) ==
    IF n = 0 THEN 0 ELSE 1 + SmallBitLen(n \div 2)

\* the number of bits of a
BitLen(a) ==
    IF Len(a) = 0 THEN 0 ELSE 13 * (Len(a) - 1) + SmallBitLen(a[Len(a)])

RECURSIVE MulFrom(_, _, _)
\* a times the digits of b from digit i on
MulFrom(a, b, i) ==
    IF i > Len(b) THEN << >>
    ELSE AddFrom(MulSmall(a, b[i]),
                 IF i = Len(b) THEN << >> ELSE <<0>> \o MulFrom(a, b, i + 1), 1, 0)

RECURSIVE DigitFrom(_, _, _)
\* quotient (one digit) and remainder of r by d, for r < d * 2^(j+1), found bit
\* by bit from bit j down
DigitFrom(r, d, j) ==
    IF j < 0 THEN [q |-> 0, r |-> r]
    ELSE LET part == MulSmall(d, 2^j)
         IN  IF BigLess(r, part) THEN DigitFrom(r, d, j - 1)
             ELSE LET rest == DigitFrom(BigSub(r, part), d, j - 1)
                  IN  [q |-> 2^j + rest.q, r |-> rest.r]

RECURSIVE DivFrom(_, _, _, _)
\* long division of n by d, with digits i down to 1 of n still to bring down
\* and the remainder r so far: the digits i down to 1 of the quotient, and the
\* remainder
DivFrom(n, d, i, r) ==
    IF i = 0 THEN [q |-> << >>, r |-> r]
    ELSE LET step == DigitFrom(Trim(<<n[i]>> \o r), d, 12)
             rest == DivFrom(n, d, i - 1, step.r)
         IN  [q |-> rest.q \o <<step.q>>, r |-> rest.r]

\* q / 2^t rounded to an integer, ties to even; `sticky` says that the exact
\* value is above q / 2^t by less than one unit of q
RoundShift(q, t, sticky) ==
    IF t = 0 THEN q
    ELSE LET kept == Shr(q, t)
             low == BigSub(q, Shl(kept, t))
             half == Shl(<<1>>, t - 1)
             up == \/ BigLess(half, low)
                   \/ low = half /\ (sticky \/ Digit(kept, 1) % 2 = 1)
         IN  IF up THEN AddFrom(kept, <<1>>, 1, 0) ELSE kept

\* float(n) for an integer 0 <= n < 2^31
FloatOf(n) ==
    [m |-> BigOf(n), s |-> 0]

\* x / y for floats x >= 0 and y > 0
FloatDiv(x, y) ==
    IF Len(x.m) = 0 THEN x
    ELSE LET n == Shl(x.m, y.s)
             d == Shl(y.m, x.s)
             s0 == 54 + BitLen(d) - BitLen(n)
             num == Shl(n, s0)
             qr == DivFrom(num, d, Len(num), << >>)
             q == Trim(qr.q)
             t == BitLen(q) - 53
         IN  [m |-> RoundShift(q, t, Len(qr.r) # 0), s |-> s0 - t]

\* x * y for floats x, y >= 0
FloatMul(x, y) ==
    LET p == Trim(MulFrom(x.m, y.m, 1))
        t == IF BitLen(p) > 53 THEN BitLen(p) - 53 ELSE 0
    IN  [m |-> RoundShift(p, t, FALSE), s |-> x.s + y.s - t]

\* x < y for floats x, y >= 0
FloatLess(x, y) ==
    BigLess(Shl(x.m, y.s), Shl(y.m, x.s))

\* the digits f"{x:.1f}" shows for a float x >= 0, as a number of tenths: the
\* exact value of x rounded to one decimal, ties to even
Tenths(x) ==
    BigVal(RoundShift(MulSmall(x.m, 10), x.s, FALSE))

(***************************************************************************)
(* Inputs.                                                                 *)
(***************************************************************************)
\* texts typed into st.chat_input
Messages ==
    {MsgFriesPain, MsgPainMood, MsgMoodBmi, MsgBmi, MsgHi, MsgCommand}

\* phone numbers typed into the forms
Phone1 == "555-0001"

Phone2 == "555-0002"

Phones ==
    {Phone1, Phone2}

\* the times datetime.now() may return, in half minutes; a handler never reads an
\* earlier time than the handler before it
Times ==
    1..MaxClock

\* current_user when nobody is logged in
None == "None"

\* submitted registration forms (src/main.py:441-447): a complete one, and one
\* that leaves the name empty
RegForms ==
    {[name |-> NameAl, age |-> 30, gender |-> GenderMale, country |-> CountryIN,
      height |-> 160, weight |-> 45],
     [name |-> << >>, age |-> 30, gender |-> GenderMale, country |-> CountryIN,
      height |-> 160, weight |-> 80]}

\* a profile that kb/users.json already holds when the session starts, left by
\* earlier sessions: it has a note and a diet entry, and it was not written through
\* the registration form of this revision (its height is zero)
StoredProfile ==
    [Name |-> NameBo, Age |-> IntToStr(41), Height |-> IntToStr(0), Weight |-> IntToStr(70),
     Gender |-> GenderFemale, Country |-> CountryUS,
     MedicalInfo |-> StrfTime(0) \o NoteSep \o MsgHi,
     RegistrationDate |-> IsoFormat(0),
     DietHistory |-> <<[timestamp |-> StrfTime(0), diet_info |-> MsgFriesPain,
                        analysis |-> [unhealthy_foods |-> <<FoodFries>>,
                                      recommendations |-> <<AltBakedPotato>>]]>>]

EmptyStore ==
    [p \in {} |-> StoredProfile]

\* the stores load_data may find in kb/users.json
InitialStores ==
    {[p \in {Phone2} |-> StoredProfile]}

\* a profile as register_user writes it, with the given height and weight texts
Measured(height, weight) ==
    [Name |-> NameAl, Age |-> IntToStr(30), Height |-> height, Weight |-> weight,
     Gender |-> GenderMale, Country |-> CountryIN, MedicalInfo |-> << >>,
     RegistrationDate |-> IsoFormat(0), DietHistory |-> << >>]

\* the diet entry an earlier process left for the lunch message
EarlierLunch ==
    [timestamp |-> StrfTime(0), diet_info |-> MsgLunch,
     analysis |-> [unhealthy_foods |-> <<FoodFries, FoodSoda>>,
                   recommendations |-> <<AltBakedPotato, AltTea, AltSeltzer>>]]

CorePhones ==
    {"555-0101", "555-0102", "555-0103", "555-0104", "555-0105", "555-0106",
     "555-0107", "555-0108", "555-0109", "555-0110"}

\* the users dict load_data (src/main.py:61-67) finds in a kb/users.json that
\* registration, earlier revisions and hand edits have filled: measures on and
\* around the band limits, a zero weight, a zero height, a height that is a
\* word, a record without 'Height', and a record of the older schema
CoreStore ==
    LET \* a profile without the given key
        Without(user_data, key) ==
            [k \in DOMAIN user_data \ {key} |-> user_data[k]]
        \* a record written before the field was renamed (src/main.py:472): it
        \* carries 'DOB' where this revision reads 'Age'
        OlderSchema(user_data) ==
            [k \in (DOMAIN user_data \ {"Age"}) \cup {"DOB"} |->
                IF k = "DOB" THEN IsoFormat(0) ELSE user_data[k]]
    IN  [p \in CorePhones |->
            CASE p = "555-0101" -> [Measured(IntToStr(160), IntToStr(45))
                                       EXCEPT !.DietHistory = <<EarlierLunch>>]
              [] p = "555-0102" -> Measured(IntToStr(140), IntToStr(49))
              [] p = "555-0103" -> Measured(IntToStr(200), IntToStr(74))
              [] p = "555-0104" -> Measured(IntToStr(160), IntToStr(64))
              [] p = "555-0105" -> Measured(IntToStr(200), IntToStr(101))
              [] p = "555-0106" -> Measured(IntToStr(160), IntToStr(0))
              [] p = "555-0107" -> Measured(IntToStr(0), IntToStr(70))
              [] p = "555-0108" -> Measured(WordAbc, IntToStr(70))
              [] p = "555-0109" -> Without(Measured(IntToStr(160), IntToStr(45)), "Height")
              [] OTHER -> OlderSchema(Measured(IntToStr(160), IntToStr(45)))]

\* diet.json as loaded by load_data: the lexicon
diet_data ==
    [unhealthy_foods |-> <<FoodFries, FoodSoda>>,
     healthy_alternatives |-> [f \in {FoodFries, FoodSoda} |->
                                  IF f = FoodFries THEN <<AltBakedPotato>>
                                  ELSE <<AltWater, AltTea, AltSeltzer, AltWater>>]]

\* what the sentiment pipeline may do when called: return a list of results
\* (well formed, empty, or holding an element without a label), or raise
SentimentOutcomes ==
    {[kind |-> "return", value |-> <<[label |-> "NEGATIVE", score |-> 90]>>],
     [kind |-> "return", value |-> <<[label |-> "NEGATIVE", score |-> 70]>>],
     [kind |-> "return", value |-> <<[label |-> "POSITIVE", score |-> 90]>>],
     [kind |-> "return", value |-> << >>],
     [kind |-> "return", value |-> <<[score |-> 90]>>],
     [kind |-> "raise", value |-> << >>]}

\* what generate_content may do: return a text, or raise
GeminiOutcomes ==
    {[ok |-> TRUE, text |-> GeminiText], [ok |-> FALSE, text |-> << >>]}

(***************************************************************************)
(* Pure functions of MedicalChatbot.                                       *)
(***************************************************************************)
\* any(word in message_lower for word in words)
AnyWordIn(words, message_lower) ==
    \E k \in 1..Len(words) : In(words[k], message_lower)

\* detect_intent with the symptom list tested before the nutrition list
detect_intent_symptom_first(message) ==
    LET message_lower == lower(message)
    IN  IF AnyWordIn(SymptomWords, message_lower) THEN "symptom"
        ELSE IF AnyWordIn(NutritionWords, message_lower) THEN "nutrition"
        ELSE IF AnyWordIn(MentalHealthWords, message_lower) THEN "mental_health"
        ELSE IF AnyWordIn(FitnessWords, message_lower) THEN "fitness"
        ELSE "general"

\* detect_intent(message) (src/main.py:160-173)
detect_intent(message) ==
    LET message_lower == lower(message)
    IN  IF AnyWordIn(NutritionWords, message_lower) THEN "nutrition"
        ELSE IF AnyWordIn(SymptomWords, message_lower) THEN "symptom"
        ELSE IF AnyWordIn(MentalHealthWords, message_lower) THEN "mental_health"
        ELSE IF AnyWordIn(FitnessWords, message_lower) THEN "fitness"
        ELSE "general"

\* the default result of analyze_sentiment; scores are in hundredths
DefaultSentiment ==
    [label |-> "NEUTRAL", score |-> 50]

\* analyze_sentiment(text) when the pipeline, if called, behaves as `outcome`
analyze_sentiment(text, outcome) ==
    IF sentiment_analyzer /\ text # << >>
    THEN IF outcome.kind = "raise" THEN DefaultSentiment
         ELSE IF Len(outcome.value) = 0 THEN DefaultSentiment
         ELSE outcome.value[1]
    ELSE DefaultSentiment

\* whether the pipeline is called by analyze_sentiment(text)
SentimentCalled(text) ==
    sentiment_analyzer /\ text # << >>

\* whether lines 337-342 of generate_response raise on this sentiment value
OpeningRaises(sentiment) ==
    \/ "label" \notin DOMAIN sentiment
    \/ sentiment.label = "NEGATIVE" /\ "score" \notin DOMAIN sentiment

\* the empathetic opening with `>=` where src/main.py:337 has `>`
empathetic_opening_ge(sentiment) ==
    IF sentiment.label = "NEGATIVE" /\ sentiment.score >= 70 THEN OpeningConcerning
    ELSE IF sentiment.label = "NEGATIVE" THEN OpeningSorry
    ELSE OpeningThanks

\* the empathetic opening of generate_response
empathetic_opening(sentiment) ==
    IF sentiment.label = "NEGATIVE" /\ sentiment.score > 70 THEN OpeningConcerning
    ELSE IF sentiment.label = "NEGATIVE" THEN OpeningSorry
    ELSE OpeningThanks

\* the elements of a list
Range(s) ==
    {s[i] : i \in 1..Len(s)}

\* list(set(xs)): the distinct elements of xs, in an order Python does not fix
ListOfSet(xs) ==
    {f \in [1..Cardinality(Range(xs)) -> Range(xs)] :
        \A i, j \in 1..Cardinality(Range(xs)) : i # j => f[i] # f[j]}

RECURSIVE FoundFoods(_, _)
\* unhealthy_found after the loop over foods[1..]
FoundFoods(foods, diet_lower) ==
    IF Len(foods) = 0 THEN << >>
    ELSE (IF In(Head(foods), diet_lower) THEN <<Head(foods)>> ELSE << >>)
         \o FoundFoods(Tail(foods), diet_lower)

RECURSIVE Recommended(_)
\* recommendations after the loop, for the foods found
Recommended(found) ==
    IF Len(found) = 0 THEN << >>
    ELSE (IF Head(found) \in DOMAIN diet_data.healthy_alternatives
          THEN diet_data.healthy_alternatives[Head(found)] ELSE << >>)
         \o Recommended(Tail(found))

\* analyze_diet_pattern(diet_text): the results it may return
analyze_diet_pattern(diet_text) ==
    LET diet_lower == lower(diet_text)
        unhealthy_found == FoundFoods(diet_data.unhealthy_foods, diet_lower)
        recommendations == Recommended(unhealthy_found)
    IN  {[unhealthy_foods |-> unhealthy_found, recommendations |-> Take(r, 3)] :
            r \in ListOfSet(recommendations)}

\* the one element of a one-element set; a value bound through such a set is
\* evaluated once, however often it is used
Only(S) ==
    CHOOSE x \in S : TRUE

\* the text of src/main.py:357-363 for a bmi: the value with one decimal and the
\* commentary of its band, against the thresholds 18.5 (= 37/2) and 25
BmiText(bmi) ==
    LET BmiLow == [m |-> BigOf(37), s |-> 1]
        BmiHigh == FloatOf(25)
    IN  Only({BmiPrefix \o IntToStr(tenths \div 10) \o <<".">> \o IntToStr(tenths % 10) :
                 tenths \in {Tenths(bmi)}})
        \o BmiSep
        \o (IF FloatLess(bmi, BmiLow) THEN BmiUnder
            ELSE IF ~FloatLess(BmiHigh, bmi) THEN BmiHealthy
            ELSE BmiOver)

\* bmi_info as the try block of generate_response builds it (src/main.py:353-363)
\* from a height of h > 0 cm and a weight of w kg, with bmi computed in binary64
BmiBlock(h, w) ==
    Only({BmiText(bmi) :
             bmi \in {FloatDiv(FloatOf(w), FloatMul(height_m, height_m)) :
                         height_m \in {FloatDiv(FloatOf(h), FloatOf(100))}}})

\* bmi_info for the heights and weights of the profiles of the model
BmiMemo ==
    [hw \in {<<160, 45>>, <<160, 64>>, <<140, 49>>, <<200, 74>>, <<200, 101>>, <<160, 0>>}
        |-> BmiBlock(hw[1], hw[2])]

\* bmi_info after the try block of generate_response (src/main.py:352-365): empty
\* when a key is missing, a text is no number or the height is zero
BmiInfo(user_data) ==
    IF ~({"Height", "Weight"} \subseteq DOMAIN user_data) THEN << >>
    ELSE IF ~IsFloat(user_data.Height) \/ ~IsFloat(user_data.Weight) THEN << >>
    ELSE LET h == StrToInt(user_data.Height)
             w == StrToInt(user_data.Weight)
         IN  IF h = 0 THEN << >>
             ELSE IF <<h, w>> \in DOMAIN BmiMemo THEN BmiMemo[<<h, w>>]
             ELSE BmiBlock(h, w)

(***************************************************************************)
(* Prompt composer.                                                        *)
(***************************************************************************)
NutritionPrompt(user_data, diet_context, user_query) ==
    NutritionTpl1 \o user_data.Name \o NutritionTpl2 \o user_data.Age
    \o NutritionTpl3 \o user_data.Height \o NutritionTpl4 \o user_data.Weight
    \o NutritionTpl5 \o user_data.Gender \o NutritionTpl6 \o user_data.Country
    \o NutritionTpl7 \o diet_context \o NutritionTpl8 \o user_query \o NutritionTpl9

SymptomPrompt(symptoms_text, user_data) ==
    LET user_context ==
            SymptomCtx1 \o user_data.Age \o SymptomCtx2 \o user_data.Gender
            \o SymptomCtx3 \o user_data.Height \o SymptomCtx4 \o user_data.Weight
            \o SymptomCtx5
    IN  SymptomTpl1 \o user_context \o SymptomTpl2 \o symptoms_text \o SymptomTpl3

MentalHealthPrompt(user_input, user_data) ==
    LET user_context ==
            MentalCtx1 \o user_data.Age \o MentalCtx2 \o user_data.Gender \o MentalCtx3
    IN  MentalTpl1 \o user_context \o MentalTpl2 \o user_input \o MentalTpl3

FitnessPrompt(user_input, user_data) ==
    FitnessTpl1 \o user_data.Age \o FitnessTpl2 \o user_data.Gender
    \o FitnessTpl3 \o user_data.Height \o FitnessTpl4 \o user_data.Weight
    \o FitnessTpl5 \o user_input \o FitnessTpl6

GeneralPrompt(user_input, user_data) ==
    LET user_context ==
            GeneralCtx1 \o user_data.Age \o GeneralCtx2 \o user_data.Gender \o GeneralCtx3
    IN  GeneralTpl1 \o user_context \o GeneralTpl2 \o user_input \o GeneralTpl3

\* the task prompt generate_response builds for the intent (src/main.py:345-387)
TaskPrompt(intent, user_input, user_data) ==
    IF intent = "nutrition" THEN NutritionPrompt(user_data, user_input, user_input)
    ELSE IF intent = "symptom" THEN SymptomPrompt(user_input, user_data)
    ELSE IF intent = "mental_health" THEN MentalHealthPrompt(user_input, user_data)
    ELSE IF intent = "fitness" THEN FitnessPrompt(user_input, user_data)
    ELSE GeneralPrompt(user_input, user_data)

\* whether composing the prompt raises KeyError: a key the f-string of the builder
\* subscripts (src/main.py:204-209, 227-230, 258-259, 287-290, 312-313) is absent
\* from the profile; an empty profile is falsy and skips the context
PromptRaises(branch, user_data) ==
    LET keys == IF branch = "nutrition"
                THEN {"Name", "Age", "Height", "Weight", "Gender", "Country"}
                ELSE IF branch \in {"symptom", "fitness"}
                THEN {"Age", "Gender", "Height", "Weight"}
                ELSE {"Age", "Gender"}
    IN  DOMAIN user_data # {} /\ ~(keys \subseteq DOMAIN user_data)

\* the payload _call_gemini sends
FullPrompt(task_prompt) ==
    system_prompt \o <<"LF", "LF">> \o task_prompt

\* the text the except branch of _call_gemini returns
Fallback(task_prompt) ==
    LET task_lower == lower(task_prompt)
    IN  IF In(FallbackKeyNutrition, task_lower) THEN FallbackNutrition
        ELSE IF In(FallbackKeySymptom, task_lower) THEN FallbackSymptom
        ELSE FallbackOther

\* _call_gemini(task_prompt) when generate_content behaves as `outcome`
call_gemini(task_prompt, outcome) ==
    IF outcome.ok THEN outcome.text ELSE Fallback(task_prompt)

\* which branch of generate_response runs (src/main.py:345-387); a profile dict
\* is truthy when it has a key
ResponseBranch(intent, user_data) ==
    IF intent = "nutrition" /\ DOMAIN user_data # {} THEN "nutrition"
    ELSE IF intent = "symptom" THEN "symptom"
    ELSE IF intent = "mental_health" THEN "mental_health"
    ELSE IF intent = "fitness" /\ DOMAIN user_data # {} THEN "fitness"
    ELSE "general"

\* the addendum with the BMI block in the fitness branch as well
Addendum_fitness(branch, user_data) ==
    IF branch \in {"nutrition", "fitness"} THEN BmiInfo(user_data) ELSE << >>

\* the addendum generate_response puts after the model's text
Addendum(branch, user_data) ==
    IF branch = "nutrition" THEN BmiInfo(user_data) ELSE << >>

(***************************************************************************)
(* Profile store.                                                          *)
(***************************************************************************)
\* the user_data dict main() builds from a submitted form (src/main.py:451-459)
FormData(form, mobile) ==
    [name |-> form.name, age |-> IntToStr(form.age), gender |-> form.gender,
     country |-> form.country, height |-> IntToStr(form.height),
     weight |-> IntToStr(form.weight), mobile_number |-> mobile]

\* all([name, age, gender, country, height, weight, mobile]) (src/main.py:450)
FormComplete(form, mobile) ==
    /\ form.name # << >> /\ form.age # 0 /\ form.gender # << >>
    /\ form.country # << >> /\ form.height # 0 /\ form.weight # 0
    /\ mobile # ""

\* the record register_user stores (src/main.py:99-109)
NewProfile(user_data, t) ==
    [Name |-> user_data.name, Age |-> user_data.age, Height |-> user_data.height,
     Weight |-> user_data.weight, Gender |-> user_data.gender,
     Country |-> user_data.country, MedicalInfo |-> << >>,
     RegistrationDate |-> IsoFormat(t), DietHistory |-> << >>]

\* register_user without the membership test of src/main.py:95: it overwrites
register_user_overwrite(us, user_data, t) ==
    [success |-> TRUE,
     users |-> [p \in DOMAIN us \cup {user_data.mobile_number} |->
                   IF p = user_data.mobile_number THEN NewProfile(user_data, t) ELSE us[p]]]

\* register_user(user_data) on the store us at time t: whether it succeeds, and
\* self.users after it
register_user(us, user_data, t) ==
    IF user_data.mobile_number \in DOMAIN us
    THEN [success |-> FALSE, users |-> us]
    ELSE [success |-> TRUE,
          users |-> [p \in DOMAIN us \cup {user_data.mobile_number} |->
                        IF p = user_data.mobile_number THEN NewProfile(user_data, t)
                        ELSE us[p]]]

\* update_medical_info with `=` where src/main.py:124 has `+=`: the new note
\* replaces the log
update_medical_info_overwrite(us, phone_number, medical_text, t) ==
    IF phone_number \in DOMAIN us
    THEN [us EXCEPT ![phone_number].MedicalInfo = StrfTime(t) \o NoteSep \o medical_text]
    ELSE us

\* update_medical_info storing the lower-cased text
update_medical_info_lowered(us, phone_number, medical_text, t) ==
    IF phone_number \in DOMAIN us
    THEN LET timestamp == StrfTime(t)
             old == us[phone_number].MedicalInfo
         IN  [us EXCEPT ![phone_number].MedicalInfo =
                 IF old # << >>
                 THEN old \o <<"LF">> \o timestamp \o NoteSep \o lower(medical_text)
                 ELSE timestamp \o NoteSep \o lower(medical_text)]
    ELSE us

\* self.users after update_medical_info(phone_number, medical_text) at time t
update_medical_info(us, phone_number, medical_text, t) ==
    IF phone_number \in DOMAIN us
    THEN LET timestamp == StrfTime(t)
             old == us[phone_number].MedicalInfo
         IN  [us EXCEPT ![phone_number].MedicalInfo =
                 IF old # << >>
                 THEN old \o <<"LF">> \o timestamp \o NoteSep \o medical_text
                 ELSE timestamp \o NoteSep \o medical_text]
    ELSE us

\* update_diet_history adding the entry to every profile of the store
update_diet_history_everyone(us, phone_number, diet_info, t, analysis) ==
    IF phone_number \in DOMAIN us
    THEN LET diet_entry ==
                 [timestamp |-> StrfTime(t), diet_info |-> diet_info, analysis |-> analysis]
         IN  [p \in DOMAIN us |-> [us[p] EXCEPT !.DietHistory = Append(@, diet_entry)]]
    ELSE us

\* self.users after update_diet_history(phone_number, diet_info) at time t, when
\* analyze_diet_pattern returned `analysis`
update_diet_history(us, phone_number, diet_info, t, analysis) ==
    IF phone_number \in DOMAIN us
    THEN LET diet_entry ==
                 [timestamp |-> StrfTime(t), diet_info |-> diet_info, analysis |-> analysis]
         IN  [us EXCEPT ![phone_number].DietHistory = Append(@, diet_entry)]
    ELSE us

\* kb/users.json after json.dump(self.users) completed; the JSON text of a store
\* of strings and lists reads back as the same store
Dumped(us) ==
    [kind |-> "store", data |-> us]

\* kb/users.json after open(..., 'w') and before json.dump completed: empty or cut
Truncated ==
    [kind |-> "partial", data |-> EmptyStore]

\* save_users whose dump writes nothing after the file was opened for writing
save_users_unwritten(us) ==
    Truncated

\* kb/users.json when save_users has returned
save_users(us) ==
    Dumped(us)

\* self.users after load_data (src/main.py:63-67)
load_users(file) ==
    IF file.kind = "store" THEN file.data ELSE EmptyStore

(***************************************************************************)
(* Session state.                                                          *)
(***************************************************************************)
\* the state of a browser session that has not run main() yet: no chatbot
\* object, nobody logged in (src/main.py:398-408)
NoSession ==
    [started |-> FALSE, users |-> EmptyStore, current_user |-> None,
     medical_report_mode |-> FALSE, chat_history |-> << >>]

NoTurn ==
    [kind |-> "none", status |-> "none", record_mode |-> FALSE, user_input |-> << >>,
     intent |-> "none",
     detect_calls |-> 0, sentiment_calls |-> 0, sentiment_arg |-> << >>,
     sentiment |-> DefaultSentiment, opening |-> << >>, gemini_calls |-> 0,
     gen_failed |-> FALSE, gemini_response |-> << >>,
     bmi_info |-> << >>, response |-> << >>]

UserMessage(content) ==
    [role |-> "user", content |-> content]

AssistantMessage(content) ==
    [role |-> "assistant", content |-> content]

Outcome(o, phone, result) ==
    [op |-> o, phone |-> phone, result |-> result]

Init ==
    /\ persisted \in {[kind |-> "store", data |-> s] : s \in InitialStores}
    /\ users = load_users(persisted)
    /\ sentiment_analyzer \in BOOLEAN
    /\ current_user = None
    /\ medical_report_mode = FALSE
    /\ chat_history = << >>
    /\ now = 1
    /\ pc = "idle"
    /\ op = "none"
    /\ turn = NoTurn
    /\ last = Outcome("init", None, "ok")
    /\ pre = users
    /\ other = NoSession
    /\ turns = 0

\* the Register form is submitted (src/main.py:449-466); register_user reads the
\* clock only when it stores a profile, and its save follows
Register(form, mobile, t) ==
    /\ pc = "idle"
    /\ current_user = None
    /\ t >= now
    /\ pre' = users
    /\ turn' = NoTurn
    /\ IF ~FormComplete(form, mobile)
       THEN /\ t = now
            /\ last' = Outcome("register", mobile, "incomplete")
            /\ UNCHANGED <<users, pc, op, now>>
       ELSE LET r == register_user(users, FormData(form, mobile), t)
            IN  /\ users' = r.users
                /\ IF r.success
                   THEN /\ last' = Outcome("register", mobile, "pending")
                        /\ now' = t
                        /\ pc' = "open"
                        /\ op' = "register"
                   ELSE /\ t = now
                        /\ last' = Outcome("register", mobile, "AlreadyExists")
                        /\ UNCHANGED <<pc, op, now>>
    /\ UNCHANGED <<persisted, sentiment_analyzer, other, current_user, medical_report_mode,
                   chat_history, turns>>

\* login_user accepting every number, known or not
login_user_any(us, phone_number) ==
    TRUE

\* login_user (src/main.py:113-117): the success flag, true exactly for a stored
\* number; it changes nothing
login_user(us, phone_number) ==
    phone_number \in DOMAIN us

\* the Login button is pressed (src/main.py:425-436)
Login(phone) ==
    /\ pc = "idle"
    /\ current_user = None
    /\ pre' = users
    /\ turn' = NoTurn
    /\ IF phone = ""
       THEN /\ last' = Outcome("login", phone, "incomplete")
            /\ UNCHANGED <<current_user, chat_history>>
       ELSE IF login_user(users, phone)
       THEN /\ last' = Outcome("login", phone, "ok")
            /\ current_user' = phone
            /\ chat_history' = << >>
       ELSE /\ last' = Outcome("login", phone, "NotFound")
            /\ UNCHANGED <<current_user, chat_history>>
    /\ UNCHANGED <<users, persisted, sentiment_analyzer, other, medical_report_mode, now, pc,
                   op, turns>>

\* a logout that leaves medical_report_mode as it is
Logout_keeping_mode ==
    /\ pc = "idle"
    /\ current_user # None
    /\ pre' = users
    /\ turn' = NoTurn
    /\ last' = Outcome("logout", current_user, "ok")
    /\ current_user' = None
    /\ chat_history' = << >>
    /\ UNCHANGED <<users, persisted, sentiment_analyzer, other, medical_report_mode, now, pc, op,
                   turns>>

\* the Logout button is pressed (src/main.py:493-497)
Logout ==
    /\ pc = "idle"
    /\ current_user # None
    /\ pre' = users
    /\ turn' = NoTurn
    /\ last' = Outcome("logout", current_user, "ok")
    /\ current_user' = None
    /\ medical_report_mode' = FALSE
    /\ chat_history' = << >>
    /\ UNCHANGED <<users, persisted, sentiment_analyzer, other, now, pc, op, turns>>

\* the Medical Report Mode / Stop Medical Report button is pressed
\* (src/main.py:482-484)
ToggleMode ==
    /\ pc = "idle"
    /\ current_user # None
    /\ pre' = users
    /\ turn' = NoTurn
    /\ last' = Outcome("toggle", current_user, "ok")
    /\ medical_report_mode' = ~medical_report_mode
    /\ UNCHANGED <<users, persisted, sentiment_analyzer, other, current_user, chat_history,
                   now, pc, op, turns>>

\* the command test without .lower()
IsCommandExact(user_input) ==
    user_input = MedicalReportCommand

\* user_input.lower() == '/medicalreport' (src/main.py:537)
IsCommand(user_input) ==
    lower(user_input) = MedicalReportCommand

\* a chat input arrives while record-only mode is on (src/main.py:527-533): the
\* note is added in memory, the save follows
RecordTurn(user_input, t) ==
    /\ pc = "idle"
    /\ t >= now
    /\ now' = t
    /\ current_user # None
    /\ turns < MaxTurns
    /\ user_input # << >>
    /\ medical_report_mode
    /\ pre' = users
    /\ turns' = turns + 1
    /\ last' = Outcome("chat", current_user, "pending")
    /\ chat_history' = Append(chat_history, UserMessage(user_input))
    /\ users' = update_medical_info(users, current_user, user_input, t)
    /\ turn' = [NoTurn EXCEPT !.kind = "record", !.status = "running",
                              !.record_mode = medical_report_mode,
                              !.user_input = user_input]
    /\ pc' = "open"
    /\ op' = "record"
    /\ UNCHANGED <<persisted, sentiment_analyzer, other, current_user, medical_report_mode>>

\* a chat input that is the command arrives while record-only mode is off
\* (src/main.py:537-539)
CommandTurn(user_input) ==
    /\ pc = "idle"
    /\ current_user # None
    /\ turns < MaxTurns
    /\ user_input # << >>
    /\ ~medical_report_mode
    /\ IsCommand(user_input)
    /\ pre' = users
    /\ turns' = turns + 1
    /\ last' = Outcome("chat", current_user, "ok")
    /\ medical_report_mode' = TRUE
    /\ chat_history' = chat_history \o <<UserMessage(user_input), AssistantMessage(CommandAck)>>
    /\ turn' = [NoTurn EXCEPT !.kind = "command", !.status = "done",
                              !.record_mode = medical_report_mode,
                              !.user_input = user_input, !.response = CommandAck]
    /\ UNCHANGED <<users, persisted, sentiment_analyzer, other, current_user, now, pc, op>>

\* any other chat input while record-only mode is off (src/main.py:541-544 and
\* generate_response up to the diet update, src/main.py:329-347): the intent is
\* detected, the sentiment scored, the opening chosen, and for a nutrition turn the
\* diet entry is added in memory
NormalTurn(user_input, outcome, t) ==
    /\ pc = "idle"
    /\ t >= now
    /\ current_user # None
    /\ turns < MaxTurns
    /\ user_input # << >>
    /\ ~medical_report_mode
    /\ ~IsCommand(user_input)
    /\ pre' = users
    /\ turns' = turns + 1
    /\ chat_history' = Append(chat_history, UserMessage(user_input))
    /\ LET user_data == users[current_user]
           intent == detect_intent(user_input)
           sentiment == analyze_sentiment(user_input, outcome)
           called == SentimentCalled(user_input)
           started == [NoTurn EXCEPT !.kind = "normal", !.status = "running",
                                     !.record_mode = medical_report_mode,
                                     !.user_input = user_input, !.intent = intent,
                                     !.detect_calls = 1,
                                     !.sentiment_calls = IF called THEN 1 ELSE 0,
                                     !.sentiment_arg = IF called THEN Take(user_input, 512)
                                                       ELSE << >>,
                                     !.sentiment = sentiment]
       IN  IF OpeningRaises(sentiment)
           THEN /\ turn' = [started EXCEPT !.status = "aborted"]
                /\ last' = Outcome("chat", current_user, "raised")
                /\ t = now
                /\ UNCHANGED <<users, pc, op, now>>
           ELSE /\ turn' = [started EXCEPT !.opening = empathetic_opening(sentiment)]
                /\ last' = Outcome("chat", current_user, "pending")
                /\ IF ResponseBranch(intent, user_data) = "nutrition"
                   THEN /\ \E analysis \in analyze_diet_pattern(user_input) :
                               users' = update_diet_history(users, current_user, user_input,
                                                            t, analysis)
                        /\ now' = t
                        /\ pc' = "open"
                        /\ op' = "nutrition"
                   ELSE /\ pc' = "generate"
                        /\ t = now
                        /\ UNCHANGED <<users, op, now>>
    /\ UNCHANGED <<persisted, sentiment_analyzer, other, current_user, medical_report_mode>>

\* save_users, first statement: open(self.users_file, 'w') empties the file
SaveOpen ==
    /\ pc = "open"
    /\ persisted' = Truncated
    /\ pc' = "dump"
    /\ UNCHANGED <<users, sentiment_analyzer, other, current_user, medical_report_mode,
                   chat_history, now, op, turn, last, pre, turns>>

\* save_users, second statement: json.dump writes the store; then the operation
\* that saved returns to its caller
SaveDump ==
    /\ pc = "dump"
    /\ persisted' = save_users(users)
    /\ op' = "none"
    /\ IF op = "register"
       THEN /\ last' = [last EXCEPT !.result = "ok"]
            /\ pc' = "idle"
            /\ UNCHANGED <<chat_history, turn>>
       ELSE IF op = "record"
       THEN /\ last' = [last EXCEPT !.result = "ok"]
            /\ chat_history' = Append(chat_history, AssistantMessage(RecordAck))
            /\ turn' = [turn EXCEPT !.status = "done", !.response = RecordAck]
            /\ pc' = "idle"
       ELSE /\ pc' = "generate"
            /\ UNCHANGED <<chat_history, turn, last>>
    /\ UNCHANGED <<users, sentiment_analyzer, other, current_user, medical_report_mode, now,
                   pre, turns>>

\* the rest of generate_response (src/main.py:350-387) and of the turn
\* (src/main.py:547): the prompt is composed, the generation collaborator called,
\* the response assembled and added to the chat; a profile key the prompt reads
\* and the profile lacks raises KeyError before the call and ends the turn there
Generate(outcome) ==
    /\ pc = "generate"
    /\ LET user_data == users[current_user]
           branch == ResponseBranch(turn.intent, user_data)
       IN  IF PromptRaises(branch, user_data)
           THEN /\ turn' = [turn EXCEPT !.status = "aborted"]
                /\ last' = [last EXCEPT !.result = "raised"]
                /\ UNCHANGED chat_history
           ELSE LET task_prompt == TaskPrompt(branch, turn.user_input, user_data)
                    gemini_response == call_gemini(task_prompt, outcome)
                    bmi_info == Addendum(branch, user_data)
                    response == turn.opening \o gemini_response \o bmi_info
                IN  /\ turn' = [turn EXCEPT !.status = "done", !.gemini_calls = @ + 1,
                                            !.gen_failed = ~outcome.ok,
                                            !.gemini_response = gemini_response,
                                            !.bmi_info = bmi_info, !.response = response]
                    /\ chat_history' = Append(chat_history, AssistantMessage(response))
                    /\ last' = [last EXCEPT !.result = "ok"]
    /\ pc' = "idle"
    /\ UNCHANGED <<users, persisted, sentiment_analyzer, other, current_user,
                   medical_report_mode, now, op, pre, turns>>

Next ==
    \/ \E form \in RegForms, mobile \in Phones, t \in Times : Register(form, mobile, t)
    \/ \E phone \in Phones \cup {""} : Login(phone)
    \/ Logout
    \/ ToggleMode
    \/ \E user_input \in Messages, t \in Times : RecordTurn(user_input, t)
    \/ \E user_input \in Messages : CommandTurn(user_input)
    \/ \E user_input \in Messages, outcome \in SentimentOutcomes, t \in Times :
           NormalTurn(user_input, outcome, t)
    \/ SaveOpen
    \/ SaveDump
    \/ \E outcome \in GeminiOutcomes : Generate(outcome)

Spec ==
    Init /\ [][Next]_vars

(***************************************************************************)
(* The chatbot over the profiles a store may hold: one login, then normal  *)
(* turns, as main() drives generate_response (src/main.py:527-547).  The   *)
(* sidebar's display of the profile (src/main.py:473-479) is left out.     *)
(***************************************************************************)
InitCore ==
    /\ persisted = [kind |-> "store", data |-> CoreStore]
    /\ users = load_users(persisted)
    /\ sentiment_analyzer \in BOOLEAN
    /\ current_user = None
    /\ medical_report_mode = FALSE
    /\ chat_history = << >>
    /\ now = 1
    /\ pc = "idle"
    /\ op = "none"
    /\ turn = NoTurn
    /\ last = Outcome("init", None, "ok")
    /\ pre = users
    /\ other = NoSession
    /\ turns = 0

NextCore ==
    \/ \E phone \in CorePhones : Login(phone)
    \/ \E user_input \in {MsgLunch, MsgBmi, MsgHi}, outcome \in SentimentOutcomes, t \in Times :
           NormalTurn(user_input, outcome, t)
    \/ SaveOpen
    \/ SaveDump
    \/ \E outcome \in GeminiOutcomes : Generate(outcome)

SpecCore ==
    InitCore /\ [][NextCore]_vars

(***************************************************************************)
(* Two browser sessions on one kb/users.json.  Streamlit keeps one         *)
(* st.session_state per session, so each session has its own chatbot       *)
(* object, whose self.users is loaded once, when main() first runs in that *)
(* session (src/main.py:398-399, 50, 60-67).  The variables users,         *)
(* current_user, medical_report_mode and chat_history are those of the     *)
(* session whose handler runs; `other` holds those of the other one.       *)
(* Handlers run one at a time, to completion.                              *)
(***************************************************************************)
\* the next handler to run is one of the other session; its first run creates
\* the chatbot, which loads kb/users.json as it is then
Switch ==
    /\ pc = "idle"
    /\ LET session == IF other.started THEN other
                      ELSE [NoSession EXCEPT !.started = TRUE,
                                             !.users = load_users(persisted)]
       IN  /\ users' = session.users
           /\ current_user' = session.current_user
           /\ medical_report_mode' = session.medical_report_mode
           /\ chat_history' = session.chat_history
           /\ pre' = session.users
    /\ other' = [started |-> TRUE, users |-> users, current_user |-> current_user,
                 medical_report_mode |-> medical_report_mode,
                 chat_history |-> chat_history]
    /\ turn' = NoTurn
    /\ last' = Outcome("switch", None, "ok")
    /\ UNCHANGED <<persisted, sentiment_analyzer, now, pc, op, turns>>

InitTwo ==
    /\ persisted \in {[kind |-> "store", data |-> s] : s \in InitialStores}
    /\ users = load_users(persisted)
    /\ sentiment_analyzer = TRUE
    /\ current_user = None
    /\ medical_report_mode = FALSE
    /\ chat_history = << >>
    /\ now = 1
    /\ pc = "idle"
    /\ op = "none"
    /\ turn = NoTurn
    /\ last = Outcome("init", None, "ok")
    /\ pre = users
    /\ other = NoSession
    /\ turns = 0

NextTwo ==
    \/ Switch
    \/ \E form \in RegForms, mobile \in Phones, t \in Times : Register(form, mobile, t)
    \/ \E phone \in Phones : Login(phone)
    \/ ToggleMode
    \/ \E user_input \in {MsgHi}, t \in Times : RecordTurn(user_input, t)
    \/ SaveOpen
    \/ SaveDump

SpecTwo ==
    InitTwo /\ [][NextTwo]_vars

(***************************************************************************)
(* Properties.                                                             *)
(***************************************************************************)
\* s is a prefix of t
IsPrefix(s, t) ==
    /\ Len(s) <= Len(t)
    /\ SubSeq(t, 1, Len(s)) = s

\* the last n messages of the chat
LastMessages(n) ==
    SubSeq(chat_history, Len(chat_history) - n + 1, Len(chat_history))

\* the chat ends with the input of the turn and this response to it
Answered(response) ==
    /\ Len(chat_history) >= 2
    /\ LastMessages(2) = <<UserMessage(turn.user_input), AssistantMessage(response)>>

\* the turn called neither the classifier, nor the sentiment pipeline, nor the
\* generation collaborator
NoCalls ==
    turn.detect_calls = 0 /\ turn.sentiment_calls = 0 /\ turn.gemini_calls = 0

\* C1: a registration (with a complete form) on a phone key that the store
\* already holds returns AlreadyExists, starts no save, and leaves every profile
\* of the store, field by field, as it was when the handler started.
C1_RegisterExistingUnchanged ==
    (last.op = "register" /\ last.result # "incomplete" /\ last.phone \in DOMAIN pre)
        => /\ last.result = "AlreadyExists"
           /\ users = pre
           /\ pc = "idle"

\* C1, its case: a second registration of Phone1 is refused after the profile
\* got a note, at a time other than that of the first registration.
C1_Witness ==
    /\ last.op = "register" /\ last.result = "AlreadyExists" /\ last.phone = Phone1
    /\ users[Phone1].MedicalInfo # << >>
    /\ users[Phone1].RegistrationDate # IsoFormat(now)

\* C2: in every step, every profile stays in the store, its DietHistory keeps
\* its entries as a prefix and gets at most one more, and its MedicalInfo keeps
\* its text as a prefix.
C2_LogsOnlyGrow ==
    [][\A p \in DOMAIN users :
          /\ p \in DOMAIN users'
          /\ IsPrefix(users[p].DietHistory, users'[p].DietHistory)
          /\ Len(users'[p].DietHistory) <= Len(users[p].DietHistory) + 1
          /\ IsPrefix(users[p].MedicalInfo, users'[p].MedicalInfo)]_vars

\* C2, its case: a note was added to a note log that was not empty.
C2_Witness ==
    /\ turn.kind = "record" /\ turn.status = "done"
    /\ pre[current_user].MedicalInfo # << >>
    /\ users[current_user].MedicalInfo # pre[current_user].MedicalInfo

\* C3: a chat input that arrives while record-only mode is on is handled as a
\* record turn, whatever its text; the turn adds "<timestamp>: <text>" with the
\* text unchanged to the note log of the logged-in user (after a line feed when
\* the log was not empty), adds no diet entry, calls neither the classifier nor
\* the sentiment pipeline nor the generation collaborator, and answers with the
\* fixed acknowledgment.
C3_RecordOnlyTurn ==
    /\ (turn.kind # "none" /\ turn.record_mode) => turn.kind = "record"
    /\ turn.kind = "record" =>
          LET old == pre[current_user].MedicalInfo
          IN  /\ turn.record_mode
              /\ users[current_user].MedicalInfo =
                     (IF old = << >> THEN << >> ELSE old \o <<"LF">>)
                     \o StrfTime(now) \o NoteSep \o turn.user_input
              /\ users[current_user].DietHistory = pre[current_user].DietHistory
              /\ NoCalls
              /\ turn.status = "done" => Answered(RecordAck)

\* C3, its case: a text with a nutrition keyword was sent in record-only mode and
\* answered.
C3_Witness ==
    /\ turn.kind = "record" /\ turn.status = "done"
    /\ turn.user_input = MsgFriesPain

\* C4 as stated: the token toggles record-only mode, and is handled as a command
\* whether the mode is on or off.
C4_TokenToggles ==
    (turn.status = "done" /\ lower(turn.user_input) = MedicalReportCommand)
        => /\ medical_report_mode = ~turn.record_mode
           /\ turn.kind = "command"

\* C4, amended: the token (in any letter case) sent while the mode is off turns
\* the mode on and is handled as a command: it is answered with the fixed
\* command acknowledgment, nothing is stored and nothing is called.  Sent while
\* the mode is on it does not turn the mode off: it is recorded as a note like any
\* other message, and the mode stays on.
C4_TokenStartsOnly ==
    (turn.kind # "none" /\ lower(turn.user_input) = MedicalReportCommand)
        => IF turn.record_mode
           THEN turn.kind = "record" /\ medical_report_mode
           ELSE /\ turn.kind = "command" /\ turn.status = "done"
                /\ medical_report_mode
                /\ users = pre
                /\ NoCalls
                /\ Answered(CommandAck)

\* C4, its case: the token was sent while the mode was on, and was answered.
C4_Witness ==
    /\ turn.kind = "record" /\ turn.status = "done"
    /\ lower(turn.user_input) = MedicalReportCommand
    /\ medical_report_mode

\* the text of the last message of the chat
LastContent ==
    chat_history[Len(chat_history)].content

\* a normal turn has ended with its response in the chat
NormalDone ==
    /\ turn.kind = "normal" /\ turn.status = "done"
    /\ chat_history # << >>
    /\ chat_history[Len(chat_history)].role = "assistant"

\* C5 as stated: throughout a normal turn and after it, the DietHistory of the
\* logged-in user has one more entry than before the turn, holding the text of
\* the message and an analysis of it, if the detected intent is nutrition (so the
\* entry is there before the generation call is made, and whether or not that call
\* fails), and is as before the turn for every other intent.
C5_DietEntryIffNutrition ==
    turn.kind = "normal" =>
        LET old == pre[current_user].DietHistory
            new == users[current_user].DietHistory
        IN  IF turn.intent = "nutrition"
            THEN /\ Len(new) = Len(old) + 1
                 /\ IsPrefix(old, new)
                 /\ new[Len(new)].diet_info = turn.user_input
                 /\ new[Len(new)].analysis \in analyze_diet_pattern(turn.user_input)
            ELSE new = old

\* C5, the failing case: a nutrition turn ended in the exception raised by the
\* choice of the opening, with no diet entry added.
C5_Witness ==
    /\ turn.kind = "normal" /\ turn.status = "aborted"
    /\ turn.intent = "nutrition"
    /\ users[current_user].DietHistory = pre[current_user].DietHistory

\* C6 as stated: after a failed generation call the text that stands for the
\* model's reply is the fallback of the topic family of the detected intent, the
\* opening comes first in the response, and the turn ends normally.
C6_FallbackByIntent ==
    (NormalDone /\ turn.gen_failed)
        => /\ turn.gemini_response =
                  (IF turn.intent = "nutrition" THEN FallbackNutrition
                   ELSE IF turn.intent = "symptom" THEN FallbackSymptom
                   ELSE FallbackOther)
           /\ IsPrefix(turn.opening \o turn.gemini_response, LastContent)
           /\ last.result = "ok"

\* C6, the failing case: a nutrition turn whose generation call failed was
\* answered with the generic fallback.
C6_Witness ==
    /\ NormalDone /\ turn.gen_failed
    /\ turn.intent = "nutrition"
    /\ turn.gemini_response = FallbackOther
    /\ turn.user_input = MsgFriesPain

\* the height and weight of the profile yield a BMI
HasBmi(user_data) ==
    /\ IsFloat(user_data.Height)
    /\ IsFloat(user_data.Weight)
    /\ StrToInt(user_data.Height) # 0

\* the response of the turn carries BMI commentary
CarriesBmi ==
    In(BmiPrefix, LastContent)

\* C7 as stated: the response carries BMI commentary exactly when the intent is
\* nutrition or fitness and the profile yields a BMI.
C7_BmiNutritionOrFitness ==
    NormalDone =>
        (CarriesBmi <=> /\ turn.intent \in {"nutrition", "fitness"}
                        /\ HasBmi(users[current_user]))

\* C7, amended: the response of a normal turn carries BMI commentary exactly
\* when the detected intent is nutrition and the height and weight of the profile
\* yield a BMI; the responses of fitness, symptom, mental_health and general
\* turns never carry it.
C7_BmiOnlyNutrition ==
    NormalDone =>
        /\ CarriesBmi <=> (turn.intent = "nutrition" /\ HasBmi(users[current_user]))
        /\ CarriesBmi => LastContent = turn.opening \o turn.gemini_response
                                       \o BmiInfo(users[current_user])

\* C7, its case: a fitness turn of a profile that yields a BMI was answered
\* without BMI commentary.
C7_Witness ==
    /\ NormalDone
    /\ turn.intent = "fitness"
    /\ HasBmi(users[current_user])
    /\ ~CarriesBmi

\* the three fixed openings
Openings ==
    {OpeningConcerning, OpeningSorry, OpeningThanks}

\* C8: the response of every normal turn, whatever its intent and whether the
\* generation call succeeded or failed, starts with exactly one of the three
\* openings, and that one is given by the sentiment result alone: NEGATIVE with a
\* score above 0.7 gives the concerning opening, NEGATIVE with a score of at most
\* 0.7 the sorry-to-hear opening, every other label the thank-you opening.
C8_OpeningBySentiment ==
    NormalDone =>
        LET expected ==
                IF turn.sentiment.label # "NEGATIVE" THEN OpeningThanks
                ELSE IF turn.sentiment.score > 70 THEN OpeningConcerning
                ELSE OpeningSorry
        IN  /\ Cardinality({o \in Openings : IsPrefix(o, LastContent)}) = 1
            /\ IsPrefix(expected, LastContent)

\* C8, its case: a turn scored NEGATIVE with exactly 0.7 whose generation call
\* failed was answered with the sorry-to-hear opening.
C8_Witness ==
    /\ NormalDone /\ turn.gen_failed
    /\ turn.sentiment = [label |-> "NEGATIVE", score |-> 70]
    /\ IsPrefix(OpeningSorry, LastContent)

\* some keyword of the list occurs in the lower-cased text
Mentions(words, text) ==
    \E w \in Range(words) : In(w, lower(text))

\* C9: the intent detected for a text is one of the five intents; it is nutrition
\* exactly when the lower-cased text holds a nutrition keyword; symptom exactly
\* when it holds a symptom keyword and no nutrition keyword; mental_health
\* exactly when it holds a mental-health keyword and none of the two earlier
\* lists; fitness exactly when it holds a fitness keyword and none of the three
\* earlier lists; general exactly when it holds no keyword.
C9_IntentFirstMatch ==
    turn.detect_calls = 1 =>
        LET text == turn.user_input
            n == Mentions(NutritionWords, text)
            s == Mentions(SymptomWords, text)
            m == Mentions(MentalHealthWords, text)
            f == Mentions(FitnessWords, text)
        IN  /\ turn.intent \in {"nutrition", "symptom", "mental_health", "fitness", "general"}
            /\ turn.intent = "nutrition" <=> n
            /\ turn.intent = "symptom" <=> (s /\ ~n)
            /\ turn.intent = "mental_health" <=> (m /\ ~n /\ ~s)
            /\ turn.intent = "fitness" <=> (f /\ ~n /\ ~s /\ ~m)
            /\ turn.intent = "general" <=> (~n /\ ~s /\ ~m /\ ~f)
            /\ text = MsgFriesPain => turn.intent = "nutrition"
            /\ text = MsgPainMood => turn.intent = "symptom"
            /\ text = MsgMoodBmi => turn.intent = "mental_health"
            /\ text = MsgBmi => turn.intent = "fitness"
            /\ text = MsgHi => turn.intent = "general"

\* C9, its case: a text with a nutrition keyword and a symptom keyword was
\* classified as nutrition.
C9_Witness ==
    /\ turn.detect_calls = 1
    /\ turn.user_input = MsgFriesPain
    /\ turn.intent = "nutrition"

\* C10 as stated: at every point the file holds the store of the session, or the
\* store as it was before the operation in progress.
C10_NeverNeither ==
    \/ persisted = [kind |-> "store", data |-> users]
    \/ persisted = [kind |-> "store", data |-> pre]

\* C10, amended: whenever no mutating operation is in progress (each one that
\* was called has returned) the file holds the store of the session; when a
\* mutating operation has changed the store and not yet opened the file, the file
\* holds the store as it was before the operation; between the opening of the
\* file for writing and the end of the dump the file is empty or cut, and holds
\* neither.
C10_WriteThrough ==
    /\ pc \in {"idle", "generate"} => persisted = [kind |-> "store", data |-> users]
    /\ pc = "open" => persisted = [kind |-> "store", data |-> pre] /\ users # pre
    /\ pc = "dump" => persisted.kind = "partial" /\ persisted.data = EmptyStore

\* C10, its case: the note of a record turn is in the file once the turn has
\* ended.
C10_Witness ==
    /\ turn.kind = "record" /\ turn.status = "done"
    /\ users # pre
    /\ persisted = [kind |-> "store", data |-> users]

\* the height or weight of the profile is missing, zero or not a number
MetricUnavailable(user_data) ==
    IF ~({"Height", "Weight"} \subseteq DOMAIN user_data) THEN TRUE
    ELSE IF ~IsFloat(user_data.Height) \/ ~IsFloat(user_data.Weight) THEN TRUE
    ELSE StrToInt(user_data.Height) = 0 \/ StrToInt(user_data.Weight) = 0

\* the last entry of the DietHistory of the logged-in user was added by this turn
\* and holds its message
EntryRecorded ==
    LET old == pre[current_user].DietHistory
        new == users[current_user].DietHistory
    IN  /\ Len(new) = Len(old) + 1
        /\ IsPrefix(old, new)
        /\ new[Len(new)].diet_info = turn.user_input

\* C11 as stated: a nutrition turn of a profile whose height or weight is
\* missing, zero or not a number, once its opening is chosen, records its diet
\* entry and ends with a response that is the opening and the model's text (or
\* the fallback) with no BMI commentary; it does not end in an exception.
C11_BmiOmitted ==
    (/\ turn.kind = "normal" /\ turn.intent = "nutrition"
     /\ ~OpeningRaises(turn.sentiment)
     /\ MetricUnavailable(users[current_user]))
        => /\ EntryRecorded
           /\ pc = "idle" => /\ NormalDone
                             /\ turn.bmi_info = << >>
                             /\ LastContent = turn.opening \o turn.gemini_response

\* C11, the failing case: the nutrition turn of a profile of height 160 and
\* weight 0 ended with a BMI commentary in its response.
C11_Witness ==
    /\ NormalDone /\ turn.intent = "nutrition"
    /\ users[current_user].Weight = IntToStr(0)
    /\ users[current_user].Height = IntToStr(160)
    /\ EntryRecorded
    /\ turn.bmi_info = BmiPrefix \o <<"0", ".", "0">> \o BmiSep \o BmiUnder
    /\ LastContent = turn.opening \o turn.gemini_response \o turn.bmi_info

\* C12: after a login attempt with a phone number that the store does not hold,
\* the outcome is NotFound, nobody is logged in, the chat history is empty as it
\* was, the store in memory and the persisted store are as before the attempt and
\* no save is under way; and in every state the current user is unset or a key of
\* the store.
C12_NoSessionForUnknown ==
    /\ (last.op = "login" /\ last.phone # "" /\ last.phone \notin DOMAIN pre)
           => /\ last.result = "NotFound"
              /\ current_user = None
              /\ chat_history = << >>
              /\ ~medical_report_mode
              /\ users = pre
              /\ persisted = [kind |-> "store", data |-> pre]
              /\ pc = "idle"
    /\ current_user = None \/ current_user \in DOMAIN users

\* C12, its case: a login with a number the store does not hold was refused
\* while the store holds another profile.
C12_Witness ==
    /\ last.op = "login" /\ last.result = "NotFound"
    /\ last.phone = Phone1
    /\ DOMAIN users = {Phone2}
    /\ current_user = None

\* the sequence has no element twice
NoDuplicates(s) ==
    \A i, j \in DOMAIN s : s[i] = s[j] => i = j

\* C13 as stated: any two analyses of the same diet text that a DietHistory
\* holds name the same unhealthy foods, which are the terms of the lexicon that
\* occur in the lower-cased text, and their recommendation lists have the same
\* content, no duplicates and at most 3 members.
C13_SameAnalysis ==
    \A p \in DOMAIN users :
        LET history == IF "DietHistory" \in DOMAIN users[p] THEN users[p].DietHistory
                       ELSE << >>
        IN  \A i, j \in DOMAIN history :
                history[i].diet_info = history[j].diet_info
                    => /\ history[i].analysis.unhealthy_foods
                              = history[j].analysis.unhealthy_foods
                       /\ Range(history[i].analysis.unhealthy_foods)
                              = {f \in Range(diet_data.unhealthy_foods) :
                                     In(f, lower(history[i].diet_info))}
                       /\ Range(history[i].analysis.recommendations)
                              = Range(history[j].analysis.recommendations)
                       /\ NoDuplicates(history[i].analysis.recommendations)
                       /\ Len(history[i].analysis.recommendations) <= 3

\* C13, the failing case: the lunch message, whose foods have four distinct
\* alternatives, was analysed in an earlier process and again in this turn; both
\* analyses name fries and soda, and the second dropped the alternative 'tea'
\* that the first kept and kept 'water' that the first dropped.
C13_Witness ==
    /\ current_user # None
    /\ LET history == users[current_user].DietHistory
       IN  /\ Len(history) = 2
           /\ history[1].diet_info = MsgLunch /\ history[2].diet_info = MsgLunch
           /\ history[1].analysis.unhealthy_foods = <<FoodFries, FoodSoda>>
           /\ history[2].analysis.unhealthy_foods = <<FoodFries, FoodSoda>>
           /\ Range(history[1].analysis.recommendations)
                  = {AltBakedPotato, AltTea, AltSeltzer}
           /\ Range(history[2].analysis.recommendations)
                  = {AltBakedPotato, AltWater, AltSeltzer}

\* s ends with t
IsSuffix(t, s) ==
    /\ Len(t) <= Len(s)
    /\ SubSeq(s, Len(s) - Len(t) + 1, Len(s)) = t

\* C14 as stated: the BMI commentary of a nutrition turn of a profile of height
\* h cm and weight w kg is the underweight guidance exactly when w / (h/100)^2 <
\* 18.5, the healthy guidance exactly when 18.5 <= w / (h/100)^2 <= 25 and the
\* overweight guidance exactly when w / (h/100)^2 > 25 (compared exactly, as
\* 20000 w against 37 h^2 and 10000 w against 25 h^2); and the lunch message of
\* the profile of height 160 and weight 45 is a nutrition turn that records its
\* diet entry and gets the underweight guidance.
C14_BandByBmi ==
    (/\ turn.kind = "normal" /\ turn.intent = "nutrition"
     /\ {"Height", "Weight"} \subseteq DOMAIN users[current_user]
     /\ HasBmi(users[current_user]))
        => LET h == StrToInt(users[current_user].Height)
               w == StrToInt(users[current_user].Weight)
           IN  /\ NormalDone
                      => /\ IsSuffix(BmiUnder, turn.bmi_info) <=> 20000 * w < 37 * h * h
                         /\ IsSuffix(BmiHealthy, turn.bmi_info)
                                <=> (37 * h * h <= 20000 * w /\ 10000 * w <= 25 * h * h)
                         /\ IsSuffix(BmiOver, turn.bmi_info) <=> 10000 * w > 25 * h * h
               /\ (NormalDone /\ h = 160 /\ w = 45 /\ turn.user_input = MsgLunch)
                      => /\ EntryRecorded
                         /\ turn.bmi_info = BmiPrefix \o <<"1", "7", ".", "6">> \o BmiSep
                                                \o BmiUnder

\* C14, the failing case: the profile of height 140 and weight 49, whose BMI is
\* 49 / 1.4^2 = 25, got the overweight guidance after 'Your BMI: 25.0'.
C14_Witness ==
    /\ NormalDone /\ turn.intent = "nutrition"
    /\ users[current_user].Height = IntToStr(140)
    /\ users[current_user].Weight = IntToStr(49)
    /\ turn.bmi_info = BmiPrefix \o <<"2", "5", ".", "0">> \o BmiSep \o BmiOver
    /\ IsSuffix(turn.bmi_info, LastContent)

\* C15 as stated: whenever a turn has been started and the handler is idle
\* again, the turn has completed and the chat ends with the user's message
\* followed by one assistant response; no turn ends in an exception.
C15_TurnCompletes ==
    (pc = "idle" /\ turn.kind # "none")
        => /\ turn.status = "done"
           /\ last.result # "raised"
           /\ Len(chat_history) >= 2
           /\ LastMessages(2)[1] = UserMessage(turn.user_input)
           /\ LastMessages(2)[2].role = "assistant"

\* C15, the failing case: the sentiment pipeline returned a result without a
\* label, the exception ended the turn, and the chat ends with the user's message.
C15_Witness ==
    /\ pc = "idle" /\ turn.kind = "normal" /\ turn.status = "aborted"
    /\ last.result = "raised"
    /\ "label" \notin DOMAIN turn.sentiment
    /\ chat_history[Len(chat_history)] = UserMessage(turn.user_input)
    /\ turn.gemini_calls = 0

\* C16 as stated: a normal turn, once its opening is chosen, of a profile that
\* has its height and weight and lacks one of the other fields of the profile
\* block ends with a response in the chat, after one generation call, and not in
\* an exception.
C16_AbsentFieldOmitted ==
    (/\ turn.kind = "normal" /\ pc = "idle"
     /\ ~OpeningRaises(turn.sentiment)
     /\ {"Height", "Weight"} \subseteq DOMAIN users[current_user]
     /\ ~({"Name", "Age", "Gender", "Country"} \subseteq DOMAIN users[current_user]))
        => /\ NormalDone
           /\ turn.gemini_calls = 1
           /\ last.result = "ok"

\* C16, the failing case: a record of the older schema, with 'DOB' and no 'Age',
\* sent a greeting; the turn ended in the exception raised while the prompt was
\* composed, with no generation call and no response in the chat.
C16_Witness ==
    /\ turn.kind = "normal" /\ turn.status = "aborted" /\ pc = "idle"
    /\ ~OpeningRaises(turn.sentiment)
    /\ DOMAIN users[current_user] =
           {"Name", "DOB", "Height", "Weight", "Gender", "Country", "MedicalInfo",
            "RegistrationDate", "DietHistory"}
    /\ turn.user_input = MsgHi /\ turn.intent = "general"
    /\ turn.gemini_calls = 0
    /\ chat_history[Len(chat_history)] = UserMessage(MsgHi)

\* C17 as stated: the sentiment result a normal turn gets from analyze_sentiment
\* has a score and a label that is POSITIVE, NEGATIVE or NEUTRAL, and is the
\* default when the pipeline is unavailable; the pipeline is called at most once,
\* with the first 512 characters of the text at most.
C17_SentimentWellFormed ==
    turn.kind = "normal"
        => /\ DOMAIN turn.sentiment = {"label", "score"}
           /\ turn.sentiment.label \in {"POSITIVE", "NEGATIVE", "NEUTRAL"}
           /\ ~sentiment_analyzer
                  => turn.sentiment = DefaultSentiment /\ turn.sentiment_calls = 0
           /\ turn.sentiment_calls <= 1
           /\ Len(turn.sentiment_arg) <= 512
           /\ IsPrefix(turn.sentiment_arg, turn.user_input)

\* C17, the failing case: the pipeline was called once and returned a list whose
\* first element has a score and no label; analyze_sentiment returned that element.
C17_Witness ==
    /\ turn.kind = "normal"
    /\ turn.sentiment_calls = 1
    /\ turn.sentiment_arg = turn.user_input
    /\ turn.sentiment = [score |-> 90]

\* the first literal of the instruction template of an intent
Template(intent) ==
    IF intent = "nutrition" THEN NutritionTpl1
    ELSE IF intent = "symptom" THEN SymptomTpl1
    ELSE IF intent = "mental_health" THEN MentalTpl1
    ELSE IF intent = "fitness" THEN FitnessTpl1
    ELSE GeneralTpl1

\* how often w occurs in s
Occurrences(w, s) ==
    Cardinality({i \in 0..(Len(s) - Len(w)) :
                    /\ s[i + 1] = w[1]
                    /\ \A j \in 2..Len(w) : s[i + j] = w[j]})

\* C18 as stated: a normal turn that is over has made exactly one generation
\* call, succeeded or failed; the payload of the call about to be made is the
\* system policy, occurring once, followed by an empty line and the instruction
\* template of the classified intent; a record-only turn and a command turn make
\* no generation call.
C18_OneGenerationCall ==
    /\ turn.kind \in {"record", "command"} => turn.gemini_calls = 0
    /\ (turn.kind = "normal" /\ pc = "idle") => turn.gemini_calls = 1
    /\ pc = "generate"
           => LET user_data == users[current_user]
                  branch == ResponseBranch(turn.intent, user_data)
                  payload == FullPrompt(TaskPrompt(branch, turn.user_input, user_data))
              IN  /\ turn.gemini_calls = 0
                  /\ IsPrefix(system_prompt \o <<"LF", "LF">> \o Template(turn.intent),
                              payload)
                  /\ Occurrences(system_prompt, payload) = 1

\* C18, the failing case: a normal turn is over, ended by the exception that the
\* choice of the opening raised, and no generation call was made.
C18_Witness ==
    /\ turn.kind = "normal" /\ pc = "idle"
    /\ turn.status = "aborted"
    /\ OpeningRaises(turn.sentiment)
    /\ turn.gemini_calls = 0
    /\ turn.gemini_response = << >>

\* C19: record-only mode is never active while nobody is logged in; right after
\* a successful login the mode is inactive and the store is as it was; and a
\* MedicalInfo that differs from its value at the start of the current handler is
\* that of the logged-in user, changed by a record-only turn taken with the mode
\* active.
C19_ModeWithinLogin ==
    /\ current_user = None => ~medical_report_mode
    /\ (last.op = "login" /\ last.result = "ok")
           => /\ ~medical_report_mode
              /\ current_user = last.phone
              /\ chat_history = << >>
              /\ users = pre
    /\ \A p \in DOMAIN pre :
           users[p].MedicalInfo # pre[p].MedicalInfo
               => /\ p = current_user
                  /\ turn.kind = "record"
                  /\ turn.record_mode
                  /\ medical_report_mode

\* C19, its case: the user registered in this run logs in again, with the mode
\* inactive, after a login in which the mode was active and a note was recorded.
C19_Witness ==
    /\ last.op = "login" /\ last.result = "ok"
    /\ current_user = Phone1
    /\ users[Phone1].MedicalInfo # << >>
    /\ ~medical_report_mode

\* the fields of a profile that registration writes and nothing rewrites
RegistrationFields ==
    {"Name", "Age", "Height", "Weight", "Gender", "Country", "RegistrationDate"}

\* C20: against the store at the start of the current handler, every profile is
\* still there with its registration fields as they were; and during and after a
\* chat turn (normal, record-only or command) the store has the same keys, the profile of
\* every other user is as it was, and of the DietHistory and the MedicalInfo of
\* the logged-in user at most one has changed.
C20_TurnFrame ==
    /\ \A p \in DOMAIN pre :
           /\ p \in DOMAIN users
           /\ DOMAIN users[p] = DOMAIN pre[p]
           /\ \A f \in RegistrationFields : users[p][f] = pre[p][f]
    /\ turn.kind \in {"normal", "record", "command"}
           => /\ DOMAIN users = DOMAIN pre
              /\ \A p \in DOMAIN pre \ {current_user} : users[p] = pre[p]
              /\ \/ users[current_user].DietHistory = pre[current_user].DietHistory
                 \/ users[current_user].MedicalInfo = pre[current_user].MedicalInfo

\* C20, its case: a nutrition turn of the user registered in this run added a
\* diet entry to that profile while the store holds another profile with a note
\* and a diet entry of its own, which is as it was.
C20_Witness ==
    /\ turn.kind = "normal" /\ turn.intent = "nutrition"
    /\ current_user = Phone1
    /\ Len(users[Phone1].DietHistory) = Len(pre[Phone1].DietHistory) + 1
    /\ users[Phone1].MedicalInfo = pre[Phone1].MedicalInfo
    /\ Phone2 \in DOMAIN users
    /\ users[Phone2] = StoredProfile

\* every profile of the store `us` is in kb/users.json with all of its note log
\* and all of its diet entries
Kept(us) ==
    \A p \in DOMAIN us :
        /\ p \in DOMAIN persisted.data
        /\ IsPrefix(us[p].MedicalInfo, persisted.data[p].MedicalInfo)
        /\ IsPrefix(us[p].DietHistory, persisted.data[p].DietHistory)

\* C21 as stated: with two sessions whose handlers run one at a time, whenever no
\* handler is running, every profile and every log entry that a session holds in
\* memory (loaded at its start, or written by its own completed operations) is in
\* the persisted store; and a registration that has succeeded was not for a phone
\* key that the other session holds.
C21_NoLostUpdate ==
    pc = "idle"
        => /\ Kept(users)
           /\ Kept(other.users)
           /\ (last.op = "register" /\ last.result = "ok")
                  => last.phone \notin DOMAIN other.users

\* C21, the failing case: one session registered a phone key, the other session,
\* started before that, recorded a note for the profile it had loaded, and its
\* save removed the registered profile from the persisted store.
C21_Witness ==
    /\ pc = "idle"
    /\ other.started /\ Phone1 \in DOMAIN other.users
    /\ Phone1 \notin DOMAIN users
    /\ turn.kind = "record" /\ current_user = Phone2
    /\ persisted = [kind |-> "store", data |-> users]
    /\ Phone1 \notin DOMAIN persisted.data
====
